---------------------------- MODULE Spec2Model ----------------------------
(***************************************************************************)
(* Sync-and-ledger subsystem of boris: the monthly range chunker, the      *)
(* start-sync handler and its job queue, the worker that runs chunk jobs,  *)
(* the MetaSyncer pass over the remote API and the database, and the       *)
(* dashboard aggregation reads.                                            *)
(*                                                                         *)
(* Representation.  A JavaScript Date is an integer number of hours since  *)
(* 2023-01-01T00:00Z.  A 'YYYY-MM-DD' string is the number of the calendar *)
(* day it names (days since 2023-01-01).  A time zone is its offset from   *)
(* UTC in hours.  Database ids (uuid defaultRandom) are drawn from a       *)
(* counter: all that matters of them is that they are distinct.  The       *)
(* createdAt / updatedAt columns of the dimension tables, platformData and *)
(* the metrics blob are left out: nothing reads them.                      *)
(***************************************************************************)
EXTENDS Integers, Sequences, FiniteSets, TLC

VARIABLES
    \* --- chunker run (generateMonthlyDateRanges applied to one input) ---
    cStart,        \* startDate argument (a Date)
    cEnd,          \* endDate argument (a Date)
    ranges,        \* the returned array, or <<>> before the call
    cpc,           \* "idle" | "input" | "done"
    \* --- remote ad platform ---
    remoteAccounts,\* the accounts the access token reaches, in listing order
    remoteRows,    \* the provider's insight rows, in the order it lists them
    endlessPaging, \* the provider puts a next link on every page it returns
    requests,      \* history: every time_range sent, with the job, the account
                   \* and the job's start and end instants
    \* --- database ---
    platformConnections,
    adAccounts,
    adObjects,
    spendings,
    nextId,        \* source of fresh row ids
    now,           \* the wall clock read by new Date()
    \* --- job queue (graphile_worker.jobs) and the POST /api/sync handler ---
    jobs,          \* set of job rows
    nextJobId,
    api,           \* the handler's position and locals
    completed,     \* history: payloads of the jobs whose task ran to its end
    cli,           \* the trigger-sync script's position and locals
    \* --- worker ---
    pass,          \* job id |-> position and locals of the task running it
    \* --- dashboard ---
    readResult     \* the last aggregation read and what it returned

chunkVars == <<cStart, cEnd, ranges, cpc>>
remoteVars == <<remoteAccounts, remoteRows, endlessPaging, requests>>
dbVars == <<platformConnections, adAccounts, adObjects, spendings, nextId>>
queueVars == <<jobs, nextJobId, api, completed, cli>>
vars == <<chunkVars, remoteVars, dbVars, now, queueVars, pass, readResult>>

\* SQL NULL / JavaScript null in a numeric column or an id
NULL == -1

-----------------------------------------------------------------------------
(* Calendar arithmetic behind Date.UTC, getUTC* and toISOString.           *)

IsLeapYear(y) == (y % 4 = 0 /\ y % 100 # 0) \/ y % 400 = 0

\* month m is 0-based, as in JavaScript
DaysInMonth(y, m) ==
    IF m \in {0, 2, 4, 6, 7, 9, 11} THEN 31
    ELSE IF m \in {3, 5, 8, 10} THEN 30
    ELSE IF IsLeapYear(y) THEN 29 ELSE 28

RECURSIVE DaysBeforeYear(_)
DaysBeforeYear(y) ==
    IF y <= 2023 THEN 0
    ELSE DaysBeforeYear(y - 1) + (IF IsLeapYear(y - 1) THEN 366 ELSE 365)

RECURSIVE DaysBeforeMonth(_, _)
DaysBeforeMonth(y, m) ==
    IF m = 0 THEN 0 ELSE DaysBeforeMonth(y, m - 1) + DaysInMonth(y, m - 1)

\* Date.UTC(y, m, d): a month of 12 rolls into the next year, day 0 is the
\* last day of the previous month.
DateUTC(y, m, d) ==
    LET yy == y + (m \div 12)
        mm == m % 12
    IN  (DaysBeforeYear(yy) + DaysBeforeMonth(yy, mm) + (d - 1)) * 24

getUTCFullYear(t) ==
    CHOOSE y \in 2023..2030 : DateUTC(y, 0, 1) <= t /\ t < DateUTC(y + 1, 0, 1)

getUTCMonth(t) ==
    LET y == getUTCFullYear(t)
    IN  CHOOSE m \in 0..11 : DateUTC(y, m, 1) <= t /\ t < DateUTC(y, m + 1, 1)

getUTCDate(t) ==
    ((t - DateUTC(getUTCFullYear(t), getUTCMonth(t), 1)) \div 24) + 1

\* date.toISOString().split('T')[0]: the UTC calendar day of the instant
ISODate(t) == t \div 24

\* new Date('YYYY-MM-DD') / z.coerce.date() of a date-only string: UTC midnight
ParseDate(day) == day * 24

-----------------------------------------------------------------------------
(* generateMonthlyDateRanges                                               *)

\* variant: February always has 28 days
LastDayOfMonthNoLeap(y, m) ==
    IF m = 1 THEN DateUTC(y, 1, 28) ELSE DateUTC(y, m + 1, 0)

\* the last day of the month of (y, m), at UTC midnight
LastDayOfMonth(y, m) == DateUTC(y, m + 1, 0)

\* variant: the month's last day is taken even when it lies after endDate
ChunkEndNoClip(lastDayOfMonth, endDate) == lastDayOfMonth

\* the earlier of the last day of the month and the end date
ChunkEnd(lastDayOfMonth, endDate) ==
    IF lastDayOfMonth > endDate THEN endDate ELSE lastDayOfMonth

\* one iteration of the while (true) loop, then the rest of the loop
RECURSIVE MonthlyLoop(_, _, _, _, _)
MonthlyLoop(currentYear, currentMonth, currentDay, endDate, acc) ==
    LET monthStart == DateUTC(currentYear, currentMonth, currentDay)
        chunkEnd   == ChunkEnd(LastDayOfMonth(currentYear, currentMonth), endDate)
        pushed     == Append(acc, [startDate |-> ISODate(monthStart),
                                   endDate   |-> ISODate(chunkEnd)])
    IN  IF chunkEnd >= endDate
        THEN pushed
        ELSE IF currentMonth + 1 > 11
             THEN MonthlyLoop(currentYear + 1, 0, 1, endDate, pushed)
             ELSE MonthlyLoop(currentYear, currentMonth + 1, 1, endDate, pushed)

generateMonthlyDateRanges(startDate, endDate) ==
    MonthlyLoop(getUTCFullYear(startDate), getUTCMonth(startDate),
                getUTCDate(startDate), endDate, <<>>)

-----------------------------------------------------------------------------
(* The remote ad platform: list-accounts and list-insights, paginated.     *)

\* one MetaAdAccount; an id is 'act_<n>', written <<"act_", n>>
MetaAdAccount(n, name, currency, timezone) ==
    [ id |-> <<"act_", n>>, name |-> name, currency |-> currency,
      timezone_name |-> timezone ]

\* metaAccount.id.replace('act_', '')
StripAct(id) == id[2]

\* rows the provider returns in one page
PageSize == 2

\* a field the provider left out of a row: '' for the strings, Absent for the
\* numeric strings (both falsy in JavaScript)
Absent == NULL

\* one MetaInsight row of account a at a level, for one day
InsightRow(a, level, day, spend, impressions, clicks) ==
    [ account       |-> a,
      level         |-> level,
      date_start    |-> day,
      spend         |-> spend,          \* decimal string, as thousandths
      impressions   |-> impressions,
      clicks        |-> clicks,
      campaign_id   |-> IF level \in {"campaign", "adset"} THEN "c1" ELSE "",
      campaign_name |-> IF level = "campaign" THEN "Campaign one" ELSE "",
      adset_id      |-> IF level \in {"adset", "ad"} THEN "s1" ELSE "",
      adset_name    |-> IF level = "adset" THEN "Ad set one" ELSE "",
      ad_id         |-> IF level = "ad" THEN "a1" ELSE "",
      ad_name       |-> IF level = "ad" THEN "Ad one" ELSE "" ]

\* GET /act_<id>/insights?level=..&time_range={since,until}&time_increment=1:
\* the rows of that account and level whose day lies in since..until
RemoteListing(rows, a, level, since, until) ==
    SelectSeq(rows, LAMBDA r : /\ r.account = a
                               /\ r.level = level
                               /\ since <= r.date_start
                               /\ r.date_start <= until)

\* one page of a listing starting after `cursor` items, and whether the
\* response carries paging.next
PageData(listing, cursor) ==
    SubSeq(listing, cursor + 1,
           IF cursor + PageSize < Len(listing) THEN cursor + PageSize
           ELSE Len(listing))

\* variant: no page names a next one
PageHasNextNever(listing, cursor) == FALSE

\* variant: at most two pages of a listing are asked for
PageHasNextCapped(listing, cursor) ==
    (endlessPaging \/ cursor + PageSize < Len(listing)) /\ cursor < PageSize

\* response.paging.next is present: items are left, or the provider puts a
\* next link on every page (the pages after the last item are empty)
PageHasNext(listing, cursor) ==
    endlessPaging \/ cursor + PageSize < Len(listing)

\* requests of one fetchAllPages the model follows
MaxCalls == 4

-----------------------------------------------------------------------------
(* lib/timezone.ts                                                         *)

\* variant: the calendar day of the instant in UTC, whatever the zone
formatDateInUTC(date, timezone) == date \div 24

\* date.toLocaleDateString('en-CA', {timeZone}): the calendar day of the
\* instant as observed at the zone's offset
formatDateInTimezone(date, timezone) == (date + timezone) \div 24

-----------------------------------------------------------------------------
(* MetaSyncer: the in-memory parts of one pass                             *)

\* fetchAllInsights: the time_range sent for every level of this account
TimeRange(startDate, endDate, accountTimezone) ==
    [ since |-> formatDateInTimezone(startDate, accountTimezone),
      until |-> formatDateInTimezone(endDate, accountTimezone) ]

NextLevel(level) ==
    IF level = "campaign" THEN "adset" ELSE IF level = "adset" THEN "ad" ELSE ""

\* batchUpsertAdObjects, lines 300-335: the objects one row can add to
\* adObjectsToUpsert, in the order the loop body looks at them
RowObjects(r) ==
    << [externalId |-> r.campaign_id,
        type |-> "CAMPAIGN",
        name |-> IF r.campaign_name # "" THEN r.campaign_name
                 ELSE "Unknown Campaign",
        parentExternalId |-> ""],
       [externalId |-> r.adset_id,
        type |-> "AD_SET",
        name |-> IF r.adset_name # "" THEN r.adset_name ELSE "Unknown AdSet",
        parentExternalId |-> r.campaign_id],
       [externalId |-> r.ad_id,
        type |-> "AD",
        name |-> IF r.ad_name # "" THEN r.ad_name ELSE "Unknown Ad",
        parentExternalId |-> r.adset_id] >>

\* the loop over the rows: an object is pushed when its external id is set
\* and not in seenIds, that is, not looked at earlier in the loop
DeriveAdObjects(insights) ==
    LET looked == [p \in 1..(3 * Len(insights)) |->
                      RowObjects(insights[((p - 1) \div 3) + 1])[((p - 1) % 3) + 1]]
        ids    == [p \in DOMAIN looked |-> looked[p].externalId]
        pushed == SelectSeq([p \in DOMAIN looked |-> p],
                            LAMBDA p : /\ ids[p] # ""
                                       /\ \A q \in 1..(p - 1) : ids[q] # ids[p])
    IN  [n \in 1..Len(pushed) |-> looked[pushed[n]]]

\* IEEE 754 binary64 arithmetic of parseFloat, `* 100` and Math.round.  A
\* significand has 53 bits, more than an integer here holds, so it is kept
\* as a sequence of limbs of LimbBits bits, lowest limb first, without
\* leading zero limbs; a positive double is [m |-> significand, k |-> n]
\* for the value m * 2^(-n), and zero has the empty significand.
LimbBits == 15

LimbBase == 2 ^ LimbBits

\* binary64: bits of the significand
SignificandBits == 53

\* the number of bits of a non-negative integer below 2^30
BitLen(x) == CHOOSE b \in 0..30 : x < 2 ^ b /\ (b = 0 \/ 2 ^ (b - 1) <= x)

RECURSIVE BigNorm(_)
BigNorm(a) ==
    IF a = <<>> THEN a
    ELSE IF a[Len(a)] = 0 THEN BigNorm(SubSeq(a, 1, Len(a) - 1))
    ELSE a

BigFromInt(x) ==
    BigNorm(<<x % LimbBase, (x \div LimbBase) % LimbBase,
              x \div (LimbBase * LimbBase)>>)

\* of a number below 2^30
BigToInt(a) ==
    (IF Len(a) >= 1 THEN a[1] ELSE 0) + (IF Len(a) >= 2 THEN a[2] * LimbBase ELSE 0)

BigBitLen(a) ==
    IF a = <<>> THEN 0 ELSE LimbBits * (Len(a) - 1) + BitLen(a[Len(a)])

BigOdd(a) == a # <<>> /\ a[1] % 2 = 1

RECURSIVE BigIncFrom(_, _)
BigIncFrom(a, i) ==
    IF i > Len(a) THEN Append(a, 1)
    ELSE IF a[i] = LimbBase - 1 THEN BigIncFrom([a EXCEPT ![i] = 0], i + 1)
    ELSE [a EXCEPT ![i] = a[i] + 1]

\* a + 1
BigInc(a) == BigIncFrom(a, 1)

RECURSIVE BigMulFrom(_, _, _, _)
BigMulFrom(a, f, i, carry) ==
    IF i > Len(a) THEN <<carry>>
    ELSE <<(a[i] * f + carry) % LimbBase>>
            \o BigMulFrom(a, f, i + 1, (a[i] * f + carry) \div LimbBase)

\* a * f, for f below the limb base
BigMulSmall(a, f) == BigNorm(BigMulFrom(a, f, 1, 0))

\* a * 2^n
BigShl(a, n) ==
    [i \in 1..(n \div LimbBits) |-> 0] \o BigMulSmall(a, 2 ^ (n % LimbBits))

\* floor(a / 2^n)
BigShr(a, n) ==
    LET b == n % LimbBits
        t == SubSeq(a, (n \div LimbBits) + 1, Len(a))
    IN  BigNorm([i \in 1..Len(t) |->
                    (t[i] \div (2 ^ b))
                    + (IF i < Len(t)
                       THEN (t[i + 1] % (2 ^ b)) * (2 ^ (LimbBits - b))
                       ELSE 0)])

\* a mod 2^n, for n up to the limb's bits
BigLowBits(a, n) == IF a = <<>> THEN 0 ELSE a[1] % (2 ^ n)

RECURSIVE BigDivFrom(_, _, _, _)
BigDivFrom(a, d, i, rem) ==
    IF i = 0 THEN [q |-> <<>>, r |-> rem]
    ELSE LET cur  == rem * LimbBase + a[i]
             rest == BigDivFrom(a, d, i - 1, cur % d)
         IN  [q |-> Append(rest.q, cur \div d), r |-> rest.r]

\* quotient and remainder of a / d, for d below the limb base
BigDivSmall(a, d) ==
    LET res == BigDivFrom(a, d, Len(a), 0)
    IN  [q |-> BigNorm(res.q), r |-> res.r]

\* round to nearest, ties to even: q + r/d with 0 <= r < d, as an integer
RoundTiesToEven(q, r, d) ==
    IF 2 * r > d \/ (2 * r = d /\ BigOdd(q)) THEN BigInc(q) ELSE q

FloatZero == [m |-> <<>>, k |-> 1]

\* parseFloat of a decimal string given in thousandths: the double nearest
\* to spend / 1000
parseFloat(spend) ==
    IF spend = 0 THEN FloatZero
    ELSE LET k0 == 63 - BitLen(spend)
             q0 == BigDivSmall(BigShl(BigFromInt(spend), k0), 1000).q
             k  == IF BigBitLen(q0) > SignificandBits THEN k0 - 1 ELSE k0
             d  == BigDivSmall(BigShl(BigFromInt(spend), k), 1000)
         IN  [m |-> RoundTiesToEven(d.q, d.r, 1000), k |-> k]

\* x * f in binary64, f a small positive integer: the exact product rounded
\* to the significand's bits
FloatTimes(x, f) ==
    IF x.m = <<>> THEN x
    ELSE LET p == BigMulSmall(x.m, f)
             s == BigBitLen(p) - SignificandBits
         IN  IF s <= 0 THEN [m |-> p, k |-> x.k]
             ELSE [m |-> RoundTiesToEven(BigShr(p, s), BigLowBits(p, s), 2 ^ s),
                   k |-> x.k - s]

\* variant: Math.floor
MathFloor(x) == BigToInt(BigShr(x.m, x.k))

\* Math.round: the nearest integer, a half rounded up
MathRound(x) == (BigToInt(BigShr(x.m, x.k - 1)) + 1) \div 2

\* variant: the cents are cut off, not rounded
AmountCentsFloor(spend) ==
    IF spend = Absent THEN 0 ELSE MathFloor(FloatTimes(parseFloat(spend), 100))

\* Math.round(parseFloat(spend) * 100) of a decimal string given in
\* thousandths
RoundedCents(spend) == MathRound(FloatTimes(parseFloat(spend), 100))

\* the spend strings of the remote rows that are the same in every
\* behaviour, and their cents, computed once
RowSpends == {290, 500, 1000, 2000, 3000, 5000, 7000, 11000, 12300, 20000}

RowCents == {<<spend, RoundedCents(spend)>> : spend \in RowSpends}

\* BigInt(Math.round(parseFloat(insight.spend || '0') * 100)) of a decimal
\* string given in thousandths
AmountCents(spend) ==
    IF spend = Absent THEN 0
    ELSE IF spend \in RowSpends
         THEN (CHOOSE p \in RowCents : p[1] = spend)[2]
         ELSE RoundedCents(spend)

\* insight.impressions ? BigInt(insight.impressions) : null
BigIntOrNull(s) == IF s = Absent THEN NULL ELSE s

\* variant: the highest level named by the row is taken
RowObjectExternalIdTopDown(r) ==
    IF r.campaign_id # "" THEN r.campaign_id
    ELSE IF r.adset_id # "" THEN r.adset_id
    ELSE r.ad_id

\* the object a row's fact is attached to: ad, else ad set, else campaign
RowObjectExternalId(r) ==
    IF r.ad_id # "" THEN r.ad_id
    ELSE IF r.adset_id # "" THEN r.adset_id
    ELSE r.campaign_id

\* batchUpsertSpendings, lines 428-439: the NewSpending of a row; the
\* metrics blob is not modelled
NewSpending(adObjectMap, r, currency, clock) ==
    [ adObjectId  |-> adObjectMap[RowObjectExternalId(r)],
      collectedAt |-> clock,
      periodStart |-> ParseDate(r.date_start),
      periodEnd   |-> ParseDate(r.date_start),
      amountCents |-> AmountCents(r.spend),
      currency    |-> currency,
      impressions |-> BigIntOrNull(r.impressions),
      clicks      |-> BigIntOrNull(r.clicks),
      conversions |-> NULL ]

\* lines 411 and 414: the rows the loop does not skip
HasAdObject(adObjectMap, r) ==
    /\ RowObjectExternalId(r) # ""
    /\ RowObjectExternalId(r) \in DOMAIN adObjectMap

\* variant: every fact is given the currency 'USD'
SpendingsToUpsertUSD(adObjectMap, insights, currency, clock) ==
    LET kept == SelectSeq(insights, LAMBDA r : HasAdObject(adObjectMap, r))
    IN  [n \in 1..Len(kept) |-> NewSpending(adObjectMap, kept[n], "USD", clock)]

\* batchUpsertSpendings, lines 398-439: the NewSpending of every row whose
\* object is in the map, in the order of the rows
SpendingsToUpsert(adObjectMap, insights, currency, clock) ==
    LET kept == SelectSeq(insights, LAMBDA r : HasAdObject(adObjectMap, r))
    IN  [n \in 1..Len(kept) |-> NewSpending(adObjectMap, kept[n], currency, clock)]

\* rows per insert statement
CHUNK_SIZE == 100

-----------------------------------------------------------------------------
(* Database statements                                                     *)

\* variant: a plain insert, without the conflict target
UpsertAdAccountRowsPlainInsert(rows, id, connectionId, metaAccount) ==
    rows \cup {[ id |-> id,
                 platformConnectionId |-> connectionId,
                 externalId |-> StripAct(metaAccount.id),
                 name |-> metaAccount.name,
                 currency |-> metaAccount.currency,
                 timezone |-> metaAccount.timezone_name ]}

\* insert(adAccounts).values(..).onConflictDoUpdate(target: connection,
\* externalId): the table afterwards
UpsertAdAccountRows(rows, id, connectionId, metaAccount) ==
    LET externalId == StripAct(metaAccount.id)
        hit == {r \in rows : /\ r.platformConnectionId = connectionId
                             /\ r.externalId = externalId}
    IN  IF hit = {}
        THEN rows \cup {[ id |-> id,
                          platformConnectionId |-> connectionId,
                          externalId |-> externalId,
                          name |-> metaAccount.name,
                          currency |-> metaAccount.currency,
                          timezone |-> metaAccount.timezone_name ]}
        ELSE (rows \ hit) \cup
             {[r EXCEPT !.name = metaAccount.name,
                        !.currency = metaAccount.currency,
                        !.timezone = metaAccount.timezone_name] : r \in hit}

\* variant: a plain insert, without the conflict target: every derived
\* object becomes a new row
UpsertAdObjectRowsPlainInsert(rows, firstId, adAccountId, toUpsert, i) ==
    rows \cup {[ id |-> firstId + k - i,
                 adAccountId |-> adAccountId,
                 externalId |-> toUpsert[k].externalId,
                 type |-> toUpsert[k].type,
                 name |-> toUpsert[k].name,
                 status |-> "ACTIVE",
                 parentId |-> NULL ] : k \in i..Len(toUpsert)}

\* variant: the conflict branch takes every column of the new row, its type
\* and its null parent included
RECURSIVE UpsertAdObjectRowsAllColumns(_, _, _, _, _)
UpsertAdObjectRowsAllColumns(rows, firstId, adAccountId, toUpsert, i) ==
    IF i > Len(toUpsert) THEN rows
    ELSE
      LET obj == toUpsert[i]
          hit == {r \in rows : /\ r.adAccountId = adAccountId
                               /\ r.externalId = obj.externalId}
      IN  IF hit = {}
          THEN UpsertAdObjectRowsAllColumns(
                 rows \cup {[ id |-> firstId,
                              adAccountId |-> adAccountId,
                              externalId |-> obj.externalId,
                              type |-> obj.type,
                              name |-> obj.name,
                              status |-> "ACTIVE",
                              parentId |-> NULL ]},
                 firstId + 1, adAccountId, toUpsert, i + 1)
          ELSE UpsertAdObjectRowsAllColumns(
                 (rows \ hit) \cup
                 {[r EXCEPT !.type = obj.type, !.name = obj.name,
                            !.status = "ACTIVE", !.parentId = NULL] : r \in hit},
                 firstId, adAccountId, toUpsert, i + 1)

\* the row of one derived object: updated on conflict (name, status),
\* inserted with a null parent otherwise.  firstId is the id of
\* the first inserted row; the k-th new row takes firstId + k - 1.
RECURSIVE UpsertAdObjectRows(_, _, _, _, _)
UpsertAdObjectRows(rows, firstId, adAccountId, toUpsert, i) ==
    IF i > Len(toUpsert) THEN rows
    ELSE
      LET obj == toUpsert[i]
          hit == {r \in rows : /\ r.adAccountId = adAccountId
                               /\ r.externalId = obj.externalId}
      IN  IF hit = {}
          THEN UpsertAdObjectRows(
                 rows \cup {[ id |-> firstId,
                              adAccountId |-> adAccountId,
                              externalId |-> obj.externalId,
                              type |-> obj.type,
                              name |-> obj.name,
                              status |-> "ACTIVE",
                              parentId |-> NULL ]},
                 firstId + 1, adAccountId, toUpsert, i + 1)
          ELSE UpsertAdObjectRows(
                 (rows \ hit) \cup
                 {[r EXCEPT !.name = obj.name, !.status = "ACTIVE"] : r \in hit},
                 firstId, adAccountId, toUpsert, i + 1)

\* how many of the derived objects are new rows
NewObjectCount(rows, adAccountId, toUpsert) ==
    Cardinality({i \in 1..Len(toUpsert) :
        ~\E r \in rows : /\ r.adAccountId = adAccountId
                         /\ r.externalId = toUpsert[i].externalId})

\* select id, externalId where adAccountId = ..: the externalId -> id map
ExternalIdToUuid(rows, adAccountId) ==
    LET mine == {r \in rows : r.adAccountId = adAccountId}
    IN  [e \in {r.externalId : r \in mine} |->
            (CHOOSE r \in mine : r.externalId = e).id]

\* update(adObjects).set({parentId}).where(id = childId)
SetParent(rows, childId, parentId) ==
    {IF r.id = childId THEN [r EXCEPT !.parentId = parentId] ELSE r : r \in rows}

\* variant: insert .. on conflict (adObjectId) do update, the earlier row of
\* the same object gives way to the new one
InsertSpendingsOnConflict(rows, firstId, chunk) ==
    {r \in rows : \A k \in 1..Len(chunk) : r.adObjectId # chunk[k].adObjectId}
        \cup {[ id          |-> firstId + k - 1,
                adObjectId  |-> chunk[k].adObjectId,
                collectedAt |-> chunk[k].collectedAt,
                periodStart |-> chunk[k].periodStart,
                periodEnd   |-> chunk[k].periodEnd,
                amountCents |-> chunk[k].amountCents,
                currency    |-> chunk[k].currency,
                impressions |-> chunk[k].impressions,
                clicks      |-> chunk[k].clicks,
                conversions |-> chunk[k].conversions ] : k \in 1..Len(chunk)}

\* variant: a row is inserted only when no stored fact of its object and
\* period has the same values
InsertSpendingsIfChanged(rows, firstId, chunk) ==
    rows \cup {[ id          |-> firstId + k - 1,
                 adObjectId  |-> chunk[k].adObjectId,
                 collectedAt |-> chunk[k].collectedAt,
                 periodStart |-> chunk[k].periodStart,
                 periodEnd   |-> chunk[k].periodEnd,
                 amountCents |-> chunk[k].amountCents,
                 currency    |-> chunk[k].currency,
                 impressions |-> chunk[k].impressions,
                 clicks      |-> chunk[k].clicks,
                 conversions |-> chunk[k].conversions ] :
               k \in {x \in 1..Len(chunk) :
                        ~\E r \in rows : /\ r.adObjectId = chunk[x].adObjectId
                                         /\ r.periodStart = chunk[x].periodStart
                                         /\ r.amountCents = chunk[x].amountCents
                                         /\ r.impressions = chunk[x].impressions
                                         /\ r.clicks = chunk[x].clicks}}

\* insert(spendings).values(chunk): every row of the chunk becomes a new
\* row; no existing row is touched
InsertSpendings(rows, firstId, chunk) ==
    rows \cup {[ id          |-> firstId + k - 1,
                 adObjectId  |-> chunk[k].adObjectId,
                 collectedAt |-> chunk[k].collectedAt,
                 periodStart |-> chunk[k].periodStart,
                 periodEnd   |-> chunk[k].periodEnd,
                 amountCents |-> chunk[k].amountCents,
                 currency    |-> chunk[k].currency,
                 impressions |-> chunk[k].impressions,
                 clicks      |-> chunk[k].clicks,
                 conversions |-> chunk[k].conversions ] : k \in 1..Len(chunk)}

-----------------------------------------------------------------------------
(* Job queue: graphile-worker's jobs table as queue.addJobs and run() use  *)
(* it.  A job is picked by priority, then id; queue_name, when set, lets   *)
(* one job of that queue run at a time.                                    *)

\* run({ concurrency: 5 })
Concurrency == 5

\* attempts after which a job is no longer retried (graphile-worker's
\* max_attempts, capped for the model)
MaxAttempts == 2

JobById(id) == CHOOSE job \in jobs : job.id = id

\* utils.addJob(identifier, payload, { priority }): the row added
NewJob(id, taskIdentifier, payload, priority) ==
    [ id              |-> id,
      task_identifier |-> taskIdentifier,
      payload         |-> payload,
      priority        |-> priority,
      queue_name      |-> "",
      attempts        |-> 0,
      last_error      |-> "",
      locked          |-> FALSE,
      backoff         |-> FALSE ]

Locked == {job \in jobs : job.locked}

\* get_job: not locked, run_at reached, attempts left, and its queue (if it
\* names one) not busy
Ready(job) ==
    /\ ~job.locked
    /\ ~job.backoff
    /\ job.attempts < MaxAttempts
    /\ job.queue_name # "" =>
          ~\E other \in Locked : other.queue_name = job.queue_name

\* variant: ORDER BY priority DESC, id ASC
FirstReadyHighestNumber(job) ==
    /\ Ready(job)
    /\ \A other \in jobs :
          Ready(other) =>
              \/ job.priority > other.priority
              \/ job.priority = other.priority /\ job.id <= other.id

\* ORDER BY priority ASC, id ASC
FirstReady(job) ==
    /\ Ready(job)
    /\ \A other \in jobs :
          Ready(other) =>
              \/ job.priority < other.priority
              \/ job.priority = other.priority /\ job.id <= other.id

-----------------------------------------------------------------------------
(* MetaSyncer.sync: positions of one pass.  Every await is one step; the   *)
(* synchronous code between two awaits belongs to the step before it.      *)

NoTimeRange == [since |-> 0, until |-> 0]

\* a payload date that z.coerce.date() does not accept (new Date(..) of it is
\* an Invalid Date)
InvalidDate == -2

\* syncMetaAdsPayloadSchema.safeParse(payload).success
PayloadValid(payload) ==
    payload.startDate # InvalidDate /\ payload.endDate # InvalidDate

\* syncMetaAds: payload parsed (z.coerce.date), sync(startDate, endDate)
\* entered, up to the first await in ensurePlatformConnection
NewPass(job) ==
    [ pc           |-> "ensureSelect",
      startDate    |-> ParseDate(job.payload.startDate),
      endDate      |-> ParseDate(job.payload.endDate),
      connectionId |-> NULL,
      metaAccounts |-> <<>>,
      k            |-> 0,          \* index of the account being processed
      dbAccountId  |-> NULL,
      timeRange    |-> NoTimeRange,
      level        |-> "",
      cursor       |-> 0,          \* items already returned by the listing
      calls        |-> 0,          \* requests made by the current fetchAllPages
      results      |-> <<>>,       \* fetchAllPages' accumulator
      insights     |-> <<>>,
      toUpsert     |-> <<>>,       \* adObjectsToUpsert
      map          |-> <<>>,       \* externalIdToUuid
      p            |-> 0,          \* index in the parent-link loop
      toInsert     |-> <<>>,       \* spendingsToUpsert
      i            |-> 0,          \* offset of the next chunk
      error        |-> "" ]        \* message of the Error thrown, if any

\* variant: the payload is used without the schema check
syncMetaAdsUnchecked(job) == NewPass(job)

\* the task as the worker starts it: a payload that fails the schema check
\* makes it throw before a MetaSyncer exists
syncMetaAds(job) ==
    IF PayloadValid(job.payload)
    THEN NewPass(job)
    ELSE [NewPass(job) EXCEPT !.pc = "rejected",
                              !.error = "Invalid sync_meta_ads payload"]

ClearAccountLocals(ps) ==
    [ps EXCEPT !.dbAccountId = NULL, !.timeRange = NoTimeRange, !.level = "",
               !.cursor = 0, !.calls = 0, !.results = <<>>, !.insights = <<>>,
               !.toUpsert = <<>>, !.map = <<>>, !.p = 0, !.toInsert = <<>>,
               !.i = 0]

\* variant: the loop over the accounts is left after its first iteration
AfterAccountReturn(ps) == [ClearAccountLocals(ps) EXCEPT !.pc = "done"]

\* bottom of the for loop over metaAccounts: the next account, or the end
AfterAccount(ps) ==
    IF ps.k < Len(ps.metaAccounts)
    THEN [ClearAccountLocals(ps) EXCEPT !.pc = "upsertAccount", !.k = ps.k + 1]
    ELSE [ClearAccountLocals(ps) EXCEPT !.pc = "done"]

\* batchUpsertSpendings entered: rows built (collectedAt = new Date()), no
\* insert when there is none
EnterSpendings(ps, clock) ==
    LET rows == SpendingsToUpsert(ps.map, ps.insights,
                                  ps.metaAccounts[ps.k].currency, clock)
    IN  IF Len(rows) = 0
        THEN AfterAccount(ps)
        ELSE [ps EXCEPT !.pc = "insertSpendings", !.toInsert = rows, !.i = 0]

\* the parent-link loop, lines 376-388: obj has a parent and both ids are
\* in the map
Linkable(ps, idx) ==
    /\ ps.toUpsert[idx].parentExternalId # ""
    /\ ps.toUpsert[idx].externalId \in DOMAIN ps.map
    /\ ps.toUpsert[idx].parentExternalId \in DOMAIN ps.map

\* variant: the loop ends at the first object it does not link
NextLinkableOrStop(ps, from) ==
    IF from <= Len(ps.toUpsert) /\ Linkable(ps, from) THEN from ELSE 0

NextLinkable(ps, from) ==
    LET S == {idx \in from..Len(ps.toUpsert) : Linkable(ps, idx)}
    IN  IF S = {} THEN 0 ELSE CHOOSE idx \in S : \A other \in S : idx <= other

EnterParents(ps, from, clock) ==
    LET n == NextLinkable(ps, from)
    IN  IF n = 0 THEN EnterSpendings(ps, clock)
        ELSE [ps EXCEPT !.pc = "updateParent", !.p = n]

\* batchUpsertAdObjects entered: objects derived; an empty list returns an
\* empty map at once
EnterObjects(ps, clock) ==
    LET derived == DeriveAdObjects(ps.insights)
    IN  IF Len(derived) = 0
        THEN EnterSpendings([ps EXCEPT !.map = <<>>], clock)
        ELSE [ps EXCEPT !.pc = "insertObjects", !.toUpsert = derived]

Running == DOMAIN pass

SetPass(j, ps) == [pass EXCEPT ![j] = ps]

DropPass(j) == [x \in Running \ {j} |-> pass[x]]

DEFAULT_ORG_ID == "00000000-0000-0000-0000-000000000001"

\* ensurePlatformConnection, lines 106-114: select .. where platform = 'META'
\* limit 1 (any such row when there are several)
EnsurePlatformConnectionSelect(j) ==
    /\ pass[j].pc = "ensureSelect"
    /\ LET existing == {c \in platformConnections : c.platform = "META"}
       IN  IF existing # {}
           THEN \E c \in existing :
                  pass' = SetPass(j, [pass[j] EXCEPT !.connectionId = c.id,
                                                     !.pc = "fetchAccounts"])
           ELSE pass' = SetPass(j, [pass[j] EXCEPT !.pc = "ensureInsert"])
    /\ UNCHANGED <<chunkVars, readResult, remoteVars, dbVars, now, queueVars>>

\* ensurePlatformConnection, lines 116-128: insert .. returning
EnsurePlatformConnectionInsert(j) ==
    /\ pass[j].pc = "ensureInsert"
    /\ platformConnections' = platformConnections \cup
          {[ id |-> nextId, organizationId |-> DEFAULT_ORG_ID,
             platform |-> "META", credentials |-> "[STORED_IN_ENV]" ]}
    /\ nextId' = nextId + 1
    /\ pass' = SetPass(j, [pass[j] EXCEPT !.connectionId = nextId,
                                          !.pc = "fetchAccounts"])
    /\ UNCHANGED <<chunkVars, readResult, remoteVars, adAccounts, adObjects, spendings,
                   now, queueVars>>

\* fetchAdAccounts: one page of /me/adaccounts; after the last page the
\* loop over the accounts starts
FetchAdAccountsPage(j) ==
    /\ pass[j].pc = "fetchAccounts"
    /\ endlessPaging => pass[j].calls < MaxCalls
    /\ LET ps      == pass[j]
           results == ps.results \o PageData(remoteAccounts, ps.cursor)
       IN  pass' = SetPass(j,
             IF PageHasNext(remoteAccounts, ps.cursor)
             THEN [ps EXCEPT !.results = results,
                             !.cursor = ps.cursor + PageSize,
                             !.calls = ps.calls + 1]
             ELSE AfterAccount([ps EXCEPT !.metaAccounts = results, !.k = 0]))
    /\ UNCHANGED <<chunkVars, readResult, remoteVars, dbVars, now, queueVars>>

\* upsertAdAccount, then fetchAllInsights up to its first request: the
\* time range is formatted in the account's time zone
UpsertAdAccount(j) ==
    /\ pass[j].pc = "upsertAccount"
    /\ LET ps          == pass[j]
           metaAccount == ps.metaAccounts[ps.k]
           externalId  == StripAct(metaAccount.id)
           after       == UpsertAdAccountRows(adAccounts, nextId,
                              ps.connectionId, metaAccount)
           row         == CHOOSE r \in after :
                              /\ r.platformConnectionId = ps.connectionId
                              /\ r.externalId = externalId
           timeRange   == TimeRange(ps.startDate, ps.endDate,
                                    metaAccount.timezone_name)
       IN  /\ adAccounts' = after
           /\ nextId' = IF row.id = nextId THEN nextId + 1 ELSE nextId
           /\ requests' = requests \cup
                 {[ job |-> j, account |-> externalId,
                    startDate |-> ps.startDate, endDate |-> ps.endDate,
                    since |-> timeRange.since, until |-> timeRange.until ]}
           /\ pass' = SetPass(j, [ps EXCEPT !.dbAccountId = row.id,
                                            !.timeRange = timeRange,
                                            !.level = "campaign",
                                            !.cursor = 0,
                                            !.results = <<>>,
                                            !.insights = <<>>,
                                            !.pc = "fetchInsights"])
    /\ UNCHANGED <<chunkVars, readResult, remoteAccounts, remoteRows, endlessPaging,
                   platformConnections, adObjects, spendings, now, queueVars>>

\* fetchAllInsights: one page of the current level; after the last page of
\* the ad level batchUpsertAdObjects starts
FetchInsightsPage(j) ==
    /\ pass[j].pc = "fetchInsights"
    /\ endlessPaging => pass[j].calls < MaxCalls
    /\ LET ps      == pass[j]
           listing == RemoteListing(remoteRows,
                          StripAct(ps.metaAccounts[ps.k].id), ps.level,
                          ps.timeRange.since, ps.timeRange.until)
           results == ps.results \o PageData(listing, ps.cursor)
       IN  pass' = SetPass(j,
             IF PageHasNext(listing, ps.cursor)
             THEN [ps EXCEPT !.results = results,
                             !.cursor = ps.cursor + PageSize,
                             !.calls = ps.calls + 1]
             ELSE IF NextLevel(ps.level) # ""
             THEN [ps EXCEPT !.insights = ps.insights \o results,
                             !.level = NextLevel(ps.level),
                             !.results = <<>>,
                             !.cursor = 0,
                             !.calls = 0]
             ELSE EnterObjects([ps EXCEPT !.insights = ps.insights \o results,
                                          !.level = "",
                                          !.results = <<>>,
                                          !.cursor = 0,
                                          !.calls = 0], now))
    /\ UNCHANGED <<chunkVars, readResult, remoteVars, dbVars, now, queueVars>>

\* batchUpsertAdObjects, lines 352-362: one insert .. on conflict do update
BatchUpsertAdObjectsInsert(j) ==
    /\ pass[j].pc = "insertObjects"
    /\ LET ps == pass[j]
       IN  /\ adObjects' = UpsertAdObjectRows(adObjects, nextId,
                               ps.dbAccountId, ps.toUpsert, 1)
           /\ nextId' = nextId +
                 NewObjectCount(adObjects, ps.dbAccountId, ps.toUpsert)
           /\ pass' = SetPass(j, [ps EXCEPT !.pc = "selectObjects"])
    /\ UNCHANGED <<chunkVars, readResult, remoteVars, platformConnections, adAccounts,
                   spendings, now, queueVars>>

\* batchUpsertAdObjects, lines 365-373: the map is read back
BatchUpsertAdObjectsSelect(j) ==
    /\ pass[j].pc = "selectObjects"
    /\ LET ps == pass[j]
       IN  pass' = SetPass(j,
             EnterParents([ps EXCEPT !.map =
                              ExternalIdToUuid(adObjects, ps.dbAccountId)],
                          1, now))
    /\ UNCHANGED <<chunkVars, readResult, remoteVars, dbVars, now, queueVars>>

\* batchUpsertAdObjects, lines 382-385: one parent reference written
BatchUpsertAdObjectsLink(j) ==
    /\ pass[j].pc = "updateParent"
    /\ LET ps  == pass[j]
           obj == ps.toUpsert[ps.p]
       IN  /\ adObjects' = SetParent(adObjects, ps.map[obj.externalId],
                                     ps.map[obj.parentExternalId])
           /\ pass' = SetPass(j, EnterParents(ps, ps.p + 1, now))
    /\ UNCHANGED <<chunkVars, readResult, remoteVars, platformConnections, adAccounts,
                   spendings, nextId, now, queueVars>>

\* variant: all the rows are the values of one insert statement
BatchUpsertSpendingsInsertAtOnce(j) ==
    /\ pass[j].pc = "insertSpendings"
    /\ LET ps == pass[j]
       IN  /\ spendings' = InsertSpendings(spendings, nextId, ps.toInsert)
           /\ nextId' = nextId + Len(ps.toInsert)
           /\ pass' = SetPass(j, AfterAccount(ps))
    /\ UNCHANGED <<chunkVars, readResult, remoteVars, platformConnections, adAccounts,
                   adObjects, now, queueVars>>

\* batchUpsertSpendings, lines 447-450: one chunk inserted
BatchUpsertSpendingsInsert(j) ==
    /\ pass[j].pc = "insertSpendings"
    /\ LET ps    == pass[j]
           last  == IF ps.i + CHUNK_SIZE < Len(ps.toInsert)
                    THEN ps.i + CHUNK_SIZE ELSE Len(ps.toInsert)
           chunk == SubSeq(ps.toInsert, ps.i + 1, last)
       IN  /\ spendings' = InsertSpendings(spendings, nextId, chunk)
           /\ nextId' = nextId + Len(chunk)
           /\ pass' = SetPass(j,
                 IF ps.i + CHUNK_SIZE < Len(ps.toInsert)
                 THEN [ps EXCEPT !.i = ps.i + CHUNK_SIZE]
                 ELSE AfterAccount(ps))
    /\ UNCHANGED <<chunkVars, readResult, remoteVars, platformConnections, adAccounts,
                   adObjects, now, queueVars>>

-----------------------------------------------------------------------------
(* Worker: run({ concurrency: 5, taskList })                               *)

\* a worker slot takes the first ready job, locks it and starts its task
GetJob(j) ==
    /\ \E job \in jobs :
          /\ job.id = j
          /\ FirstReady(job)
          /\ Cardinality(Locked) < Concurrency
          /\ jobs' = (jobs \ {job}) \cup
                {[job EXCEPT !.locked = TRUE, !.attempts = job.attempts + 1]}
          /\ pass' = [x \in Running \cup {j} |->
                         IF x = j THEN syncMetaAds(job) ELSE pass[x]]
    /\ UNCHANGED <<chunkVars, readResult, remoteVars, dbVars, now, nextJobId, api, completed, cli>>

\* the task's promise resolved: the job row is deleted
CompleteJob(j) ==
    /\ pass[j].pc = "done"
    /\ jobs' = jobs \ {JobById(j)}
    /\ completed' = completed \cup {JobById(j).payload}
    /\ pass' = DropPass(j)
    /\ UNCHANGED <<chunkVars, readResult, remoteVars, dbVars, now, nextJobId, api, cli>>

\* variant: the loop body in a try / catch that logs and goes on with the
\* next account
UnwindCaught(ps) == AfterAccount(ps)

\* an awaited call threw: nothing in sync or syncMetaAds catches, the frames
\* and their locals are gone and the task's promise is rejected
Unwind(ps) ==
    [ClearAccountLocals(ps) EXCEPT !.pc = "rejected", !.connectionId = NULL,
                                   !.metaAccounts = <<>>, !.k = 0]

\* what an awaited fetchFromMeta call can throw: the Error for a response
\* that is not ok, the Error for the abort timer, or what fetch or
\* response.json() rejected with, rethrown as it is
FetchErrors ==
    { "Meta API error (500): body",
      "Meta API timeout after 30000ms",
      "fetch failed" }

\* the errors the awaited call of a position can throw
ThrowableAt(pc) ==
    IF pc \in {"fetchAccounts", "fetchInsights"} THEN FetchErrors
    ELSE {"database error"}

\* variant: sync catches what a call throws and throws an Error of its own
TaskThrowsWrapped(j, error) ==
    /\ pass[j].pc \notin {"done", "rejected"}
    /\ error \in ThrowableAt(pass[j].pc)
    /\ pass' = SetPass(j, [Unwind(pass[j]) EXCEPT !.error = "Sync failed"])
    /\ UNCHANGED <<chunkVars, readResult, remoteVars, dbVars, now, queueVars>>

\* the awaited call of the current step threw `error`: nothing is retried
\* or caught on the way up
TaskThrowsWith(j, error) ==
    /\ pass[j].pc \notin {"done", "rejected"}
    /\ error \in ThrowableAt(pass[j].pc)
    /\ pass' = SetPass(j, [Unwind(pass[j]) EXCEPT !.error = error])
    /\ UNCHANGED <<chunkVars, readResult, remoteVars, dbVars, now, queueVars>>

\* the awaited call of the current step threw: a response that is not ok
\* for a remote call, a database error for a query
TaskThrows(j) ==
    TaskThrowsWith(j, IF pass[j].pc \in {"fetchAccounts", "fetchInsights"}
                      THEN "Meta API error (500): body"
                      ELSE "database error")

\* variant: the job row of a rejected task is deleted like that of a
\* resolved one
FailJobDiscards(j) ==
    /\ pass[j].pc = "rejected"
    /\ jobs' = jobs \ {JobById(j)}
    /\ pass' = DropPass(j)
    /\ UNCHANGED <<chunkVars, readResult, remoteVars, dbVars, now, nextJobId, api, completed, cli>>

\* the worker sees the rejected promise: the job is unlocked with last_error
\* set and a later run_at
FailJob(j) ==
    /\ pass[j].pc = "rejected"
    /\ LET job == JobById(j)
       IN  jobs' = (jobs \ {job}) \cup
              {[job EXCEPT !.locked = FALSE,
                           !.backoff = TRUE,
                           !.last_error = pass[j].error]}
    /\ pass' = DropPass(j)
    /\ UNCHANGED <<chunkVars, readResult, remoteVars, dbVars, now, nextJobId, api, completed, cli>>

\* run_at of a failed job is reached
BackoffElapsed(j) ==
    /\ \E job \in jobs :
          /\ job.id = j
          /\ job.backoff
          /\ jobs' = (jobs \ {job}) \cup {[job EXCEPT !.backoff = FALSE]}
    /\ UNCHANGED <<chunkVars, readResult, remoteVars, dbVars, now, nextJobId, api, completed, cli, pass>>

-----------------------------------------------------------------------------
(* POST /api/sync                                                          *)

\* getAuth(req).userId of a request without a session
NoUser == ""

\* requireAuth: the request goes on to the next handler (TRUE), or
\* UnauthorizedError('Authentication required') is thrown and answered 401
requireAuth(userId) == userId # NoUser

\* no request yet; posted counts the requests received
ApiIdle ==
    [ pc |-> "idle", userId |-> NoUser, startDate |-> 0, endDate |-> 0,
      dateRanges |-> <<>>, i |-> 0, ids |-> <<>>, posted |-> 0 ]

\* app.use('/api/sync', syncRouter) behind clerkMiddleware(), which attaches
\* the session to the request and lets it through; then syncRouter.post:
\* startSyncSchema, the chunking, queue.addJobs entered
AppPostSync(userId, startDate, endDate) ==
    /\ api.pc # "adding"
    /\ api' = IF endDate >= startDate
              THEN [ pc |-> "adding", userId |-> userId,
                     startDate |-> startDate, endDate |-> endDate,
                     dateRanges |-> generateMonthlyDateRanges(startDate, endDate),
                     i |-> 0, ids |-> <<>>, posted |-> api.posted + 1 ]
              ELSE [ApiIdle EXCEPT !.pc = "rejected", !.userId = userId,
                                   !.startDate = startDate,
                                   !.endDate = endDate,
                                   !.posted = api.posted + 1]
    /\ UNCHANGED <<chunkVars, readResult, remoteVars, dbVars, now, jobs, nextJobId, completed, cli, pass>>

\* POST /api/sync of a signed-in user
PostSync(startDate, endDate) == AppPostSync("user_test123", startDate, endDate)

\* variant: every iteration adds the job of the first range
AddJobsStepFirstRange ==
    /\ api.pc = "adding"
    /\ jobs' = jobs \cup {NewJob(nextJobId, "sync_meta_ads",
                                 api.dateRanges[1], api.i)}
    /\ nextJobId' = nextJobId + 1
    /\ api' = [api EXCEPT !.i = api.i + 1,
                          !.ids = Append(api.ids, nextJobId),
                          !.pc = IF api.i + 1 = Len(api.dateRanges)
                                 THEN "accepted" ELSE "adding"]
    /\ UNCHANGED <<chunkVars, readResult, remoteVars, dbVars, now, completed, cli, pass>>

\* queue.addJobs, one iteration: utils.addJob(.., { priority: i }); after
\* the last one the handler answers 202 with the ids and the chunk count
AddJobsStep ==
    /\ api.pc = "adding"
    /\ jobs' = jobs \cup {NewJob(nextJobId, "sync_meta_ads",
                                 api.dateRanges[api.i + 1], api.i)}
    /\ nextJobId' = nextJobId + 1
    /\ api' = [api EXCEPT !.i = api.i + 1,
                          !.ids = Append(api.ids, nextJobId),
                          !.pc = IF api.i + 1 = Len(api.dateRanges)
                                 THEN "accepted" ELSE "adding"]
    /\ UNCHANGED <<chunkVars, readResult, remoteVars, dbVars, now, completed, cli, pass>>

\* utils.addJob threw: the loop is left, the error handler answers; the
\* jobs already added stay
AddJobsThrows ==
    /\ api.pc = "adding"
    /\ api' = [api EXCEPT !.pc = "error"]
    /\ UNCHANGED <<chunkVars, readResult, remoteVars, dbVars, now, jobs, nextJobId, completed, cli, pass>>

\* a job queued directly in PostgreSQL with graphile_worker.add_job: any
\* JSON payload, default priority
DirectAddJob(payload) ==
    /\ jobs' = jobs \cup {NewJob(nextJobId, "sync_meta_ads", payload, 0)}
    /\ nextJobId' = nextJobId + 1
    /\ UNCHANGED <<chunkVars, readResult, remoteVars, dbVars, now, api, completed, cli, pass>>

-----------------------------------------------------------------------------
(* scripts/trigger-sync.ts: pnpm sync <startDate> <endDate>                *)

\* the script has not been started
CliIdle == [ pc |-> "idle", dateRanges |-> <<>>, i |-> 0 ]

\* both arguments match YYYY-MM-DD: they are parsed as UTC midnight and
\* chunked; nothing compares them
TriggerSync(startDateArg, endDateArg) ==
    /\ cli.pc = "idle"
    /\ cli' = [ pc |-> "adding",
                dateRanges |-> generateMonthlyDateRanges(
                                   ParseDate(startDateArg), ParseDate(endDateArg)),
                i |-> 0 ]
    /\ UNCHANGED <<chunkVars, readResult, remoteVars, dbVars, now, jobs,
                   nextJobId, api, completed, pass>>

\* one iteration of the enqueue loop: workerUtils.addJob(.., { priority: i })
TriggerSyncAddJob ==
    /\ cli.pc = "adding"
    /\ jobs' = jobs \cup {NewJob(nextJobId, "sync_meta_ads",
                                 cli.dateRanges[cli.i + 1], cli.i)}
    /\ nextJobId' = nextJobId + 1
    /\ cli' = [cli EXCEPT !.i = cli.i + 1,
                          !.pc = IF cli.i + 1 = Len(cli.dateRanges)
                                 THEN "queued" ELSE "adding"]
    /\ UNCHANGED <<chunkVars, readResult, remoteVars, dbVars, now, api,
                   completed, pass>>

\* workerUtils.addJob rejected: the script dies, the jobs already added stay
TriggerSyncThrows ==
    /\ cli.pc = "adding"
    /\ cli' = [cli EXCEPT !.pc = "crashed"]
    /\ UNCHANGED <<chunkVars, readResult, remoteVars, dbVars, now, jobs,
                   nextJobId, api, completed, pass>>

-----------------------------------------------------------------------------
(* Aggregation reads (dashboard service)                                   *)

RECURSIVE SumValues(_)
\* the sum of the second components of a set of <<row id, value>> pairs
SumValues(S) ==
    IF S = {} THEN 0
    ELSE LET x == CHOOSE y \in S : TRUE
         IN  x[2] + SumValues(S \ {x})

\* SQL SUM over the rows of F: NULLs are skipped, no value at all gives NULL
SumAmountCents(F) ==
    IF F = {} THEN NULL ELSE SumValues({<<f.id, f.amountCents>> : f \in F})

SumImpressions(F) ==
    LET G == {f \in F : f.impressions # NULL}
    IN  IF G = {} THEN NULL ELSE SumValues({<<f.id, f.impressions>> : f \in G})

SumClicks(F) ==
    LET G == {f \in F : f.clicks # NULL}
    IN  IF G = {} THEN NULL ELSE SumValues({<<f.id, f.clicks>> : f \in G})

SumConversions(F) ==
    LET G == {f \in F : f.conversions # NULL}
    IN  IF G = {} THEN NULL ELSE SumValues({<<f.id, f.conversions>> : f \in G})

\* COALESCE(x, 0)
Coalesce0(x) == IF x = NULL THEN 0 ELSE x

\* variant: lt(periodStart, endDate), without the added day
SpendingsInWindowExclusive(startDate, endDate) ==
    {f \in spendings : /\ f.periodStart >= startDate
                       /\ f.periodStart < endDate}

\* latestSpendingsSubquery, lines 120-138: rows whose periodStart lies in
\* [startDate, endDate + 1 day)
SpendingsInWindow(startDate, endDate) ==
    {f \in spendings : /\ f.periodStart >= startDate
                       /\ f.periodStart < endDate + 24}

\* variant: ORDER BY collectedAt ASC, the first collected row of a key
IsEarliest(f, window) ==
    \A g \in window :
        (g.adObjectId = f.adObjectId /\ g.periodStart = f.periodStart)
            => g.collectedAt >= f.collectedAt

\* the rows DISTINCT ON (adObjectId, periodStart) .. ORDER BY collectedAt
\* DESC may keep for the key of f: those with the greatest collectedAt
IsLatest(f, window) ==
    \A g \in window :
        (g.adObjectId = f.adObjectId /\ g.periodStart = f.periodStart)
            => g.collectedAt <= f.collectedAt

RECURSIVE PickLatest(_, _)
\* every set holding one latest row per key of `keys`
PickLatest(keys, window) ==
    IF keys = {} THEN {{}}
    ELSE LET k    == CHOOSE x \in keys : TRUE
             cand == {f \in window : /\ <<f.adObjectId, f.periodStart>> = k
                                     /\ IsLatest(f, window)}
         IN  {rest \cup {f} : rest \in PickLatest(keys \ {k}, window), f \in cand}

\* variant: without DISTINCT ON, every row of the window
allSpendingsSubquery(startDate, endDate) ==
    {SpendingsInWindow(startDate, endDate)}

\* the results the subquery can have (one, unless two rows of a key share
\* the greatest collectedAt)
latestSpendingsSubquery(startDate, endDate) ==
    LET window == SpendingsInWindow(startDate, endDate)
    IN  PickLatest({<<f.adObjectId, f.periodStart>> : f \in window}, window)

\* variant: the join without the type = 'AD' restriction
AccountsWithSpendingAllLevels(latest, organizationId) ==
    LET Objs(a) == {o \in adObjects : o.adAccountId = a.id}
        Joined(a) == {f \in latest : \E o \in Objs(a) : f.adObjectId = o.id}
    IN  { [ id               |-> a.id,
            name             |-> a.name,
            platform         |-> c.platform,
            currency         |-> a.currency,
            timezone         |-> a.timezone,
            totalSpendCents  |-> Coalesce0(SumAmountCents(Joined(a))),
            totalImpressions |-> Coalesce0(SumImpressions(Joined(a))),
            totalClicks      |-> Coalesce0(SumClicks(Joined(a))) ] :
          <<a, c>> \in {<<a, c>> \in adAccounts \X platformConnections :
                          /\ a.platformConnectionId = c.id
                          /\ c.organizationId = organizationId} }

\* getAccountsWithSpending, lines 158-200, over one result of the subquery
AccountsWithSpending(latest, organizationId) ==
    LET Ads(a) == {o \in adObjects : o.adAccountId = a.id /\ o.type = "AD"}
        Joined(a) == {f \in latest : \E o \in Ads(a) : f.adObjectId = o.id}
    IN  { [ id               |-> a.id,
            name             |-> a.name,
            platform         |-> c.platform,
            currency         |-> a.currency,
            timezone         |-> a.timezone,
            totalSpendCents  |-> Coalesce0(SumAmountCents(Joined(a))),
            totalImpressions |-> Coalesce0(SumImpressions(Joined(a))),
            totalClicks      |-> Coalesce0(SumClicks(Joined(a))) ] :
          <<a, c>> \in {<<a, c>> \in adAccounts \X platformConnections :
                          /\ a.platformConnectionId = c.id
                          /\ c.organizationId = organizationId} }

DEFAULT_LIMIT == 50
MAX_LIMIT == 100

\* variant: the where clause without the account
ObjectsInScopeAnyAccount(accountId, parentId) ==
    {o \in adObjects : o.parentId = parentId}

\* the objects of the scope: the account's objects under parentId (the
\* roots when parentId is null)
ObjectsInScope(accountId, parentId) ==
    {o \in adObjects : o.adAccountId = accountId /\ o.parentId = parentId}

\* variant: the three ratios divided without looking at the denominator
ObjectRowUnguarded(o, latest) ==
    LET F           == {f \in latest : f.adObjectId = o.id}
        parents     == {q \in adObjects : q.id = o.parentId}
        spendCents  == Coalesce0(SumAmountCents(F))
        impressions == Coalesce0(SumImpressions(F))
        clicks      == Coalesce0(SumClicks(F))
    IN  [ id          |-> o.id,
          externalId  |-> o.externalId,
          type        |-> o.type,
          name        |-> o.name,
          status      |-> o.status,
          parentId    |-> o.parentId,
          parentName  |-> IF parents = {} THEN ""
                          ELSE (CHOOSE q \in parents : TRUE).name,
          parentType  |-> IF parents = {} THEN ""
                          ELSE (CHOOSE q \in parents : TRUE).type,
          sortKey     |-> SumAmountCents(F),
          spendCents  |-> spendCents,
          impressions |-> impressions,
          clicks      |-> clicks,
          conversions |-> Coalesce0(SumConversions(F)),
          ctr         |-> <<clicks * 100, impressions>>,
          cpc         |-> <<spendCents, clicks * 100>>,
          cpm         |-> <<spendCents * 1000, impressions * 100>> ]

\* one row of getObjectsWithSpending; sortKey is SUM(amount_cents) before
\* COALESCE; a ratio is the exact fraction <<numerator, denominator>>
ObjectRow(o, latest) ==
    LET F           == {f \in latest : f.adObjectId = o.id}
        parents     == {q \in adObjects : q.id = o.parentId}
        spendCents  == Coalesce0(SumAmountCents(F))
        impressions == Coalesce0(SumImpressions(F))
        clicks      == Coalesce0(SumClicks(F))
    IN  [ id          |-> o.id,
          externalId  |-> o.externalId,
          type        |-> o.type,
          name        |-> o.name,
          status      |-> o.status,
          parentId    |-> o.parentId,
          parentName  |-> IF parents = {} THEN ""
                          ELSE (CHOOSE q \in parents : TRUE).name,
          parentType  |-> IF parents = {} THEN ""
                          ELSE (CHOOSE q \in parents : TRUE).type,
          sortKey     |-> SumAmountCents(F),
          spendCents  |-> spendCents,
          impressions |-> impressions,
          clicks      |-> clicks,
          conversions |-> Coalesce0(SumConversions(F)),
          ctr         |-> IF impressions > 0
                          THEN <<clicks * 100, impressions>> ELSE <<0, 1>>,
          cpc         |-> IF clicks > 0
                          THEN <<spendCents, clicks * 100>> ELSE <<0, 1>>,
          cpm         |-> IF impressions > 0
                          THEN <<spendCents * 1000, impressions * 100>>
                          ELSE <<0, 1>> ]

\* ORDER BY SUM(amount_cents) DESC: PostgreSQL puts NULL first when
\* descending; rows with equal keys come in any order
SortsBefore(x, y) ==
    \/ x.sortKey = NULL
    \/ y.sortKey # NULL /\ x.sortKey >= y.sortKey

OrderedListings(rows) ==
    LET n == Cardinality(rows)
    IN  {s \in [1..n -> rows] :
            /\ \A i, j \in 1..n : i # j => s[i] # s[j]
            /\ \A i \in 1..n : \A j \in 1..n : i < j => SortsBefore(s[i], s[j])}

\* variant: pagination?.limit ?? DEFAULT_LIMIT, without the cap
EffectiveLimitUncapped(limit) == IF limit = NULL THEN DEFAULT_LIMIT ELSE limit

\* Math.min(pagination?.limit ?? DEFAULT_LIMIT, MAX_LIMIT); NULL stands for
\* an undefined limit or offset
EffectiveLimit(limit) ==
    LET l == IF limit = NULL THEN DEFAULT_LIMIT ELSE limit
    IN  IF l < MAX_LIMIT THEN l ELSE MAX_LIMIT

EffectiveOffset(offset) == IF offset = NULL THEN 0 ELSE offset

\* getObjectsWithSpending, lines 215-311, for one order of the rows
ObjectsWithSpending(sorted, total, limit, offset) ==
    LET l    == EffectiveLimit(limit)
        off  == EffectiveOffset(offset)
        last == IF off + l < Len(sorted) THEN off + l ELSE Len(sorted)
        data == SubSeq(sorted, off + 1, last)
    IN  [ data    |-> data,
          total   |-> total,
          limit   |-> l,
          offset  |-> off,
          hasMore |-> off + Len(data) < total ]

NoRead == [op |-> "none"]

\* GET /api/ad-accounts?startDate&endDate
GetAccountsWithSpending(startDate, endDate, organizationId) ==
    /\ \E latest \in latestSpendingsSubquery(startDate, endDate) :
          readResult' = [ op        |-> "getAccountsWithSpending",
                          startDate |-> startDate,
                          endDate   |-> endDate,
                          rows      |-> AccountsWithSpending(latest,
                                                             organizationId) ]
    /\ UNCHANGED <<chunkVars, remoteVars, dbVars, now, queueVars, pass>>

\* GET /api/ad-accounts/:id/objects?parentId&startDate&endDate&limit&offset
GetObjectsWithSpending(accountId, parentId, startDate, endDate, limit, offset) ==
    /\ \E latest \in latestSpendingsSubquery(startDate, endDate) :
          LET scope == ObjectsInScope(accountId, parentId)
              rows  == {ObjectRow(o, latest) : o \in scope}
          IN  \E sorted \in OrderedListings(rows) :
                readResult' =
                    [ op        |-> "getObjectsWithSpending",
                      accountId |-> accountId,
                      parentId  |-> parentId,
                      startDate |-> startDate,
                      endDate   |-> endDate,
                      limit     |-> limit,
                      offset    |-> offset,
                      page      |-> ObjectsWithSpending(sorted,
                                        Cardinality(scope), limit, offset) ]
    /\ UNCHANGED <<chunkVars, remoteVars, dbVars, now, queueVars, pass>>

-----------------------------------------------------------------------------
\* the wall clock advances
MaxClock == 1

Tick ==
    /\ now < MaxClock
    /\ now' = now + 1
    /\ UNCHANGED <<chunkVars, readResult, remoteVars, dbVars, queueVars, pass>>

-----------------------------------------------------------------------------
(* Data of the checked configurations                                      *)

\* 2024-01-31 and 2024-02-01
SyncDays == {395, 396}

\* an account in America/Argentina/San_Luis (UTC-3) and one in
\* Australia/Sydney (UTC+11)
AccountBrand == MetaAdAccount(1, "Brand", "ARS", 0 - 3)
AccountClient == MetaAdAccount(2, "Client", "AUD", 11)

\* account 1 has a campaign / ad set / ad reported on 2024-01-30 and
\* 2024-01-31
BrandRows ==
    << InsightRow(1, "campaign", 394, 12300, 100, 7),
       InsightRow(1, "campaign", 395, 290, 0, 0),
       InsightRow(1, "adset", 394, 12300, 100, 7),
       InsightRow(1, "adset", 395, 290, 0, 0),
       InsightRow(1, "ad", 394, 12300, 100, 7),
       InsightRow(1, "ad", 395, 290, Absent, Absent) >>

ChunkIdle ==
    /\ cStart = 0
    /\ cEnd = 0
    /\ ranges = <<>>
    /\ cpc = "idle"

EmptyDatabase ==
    /\ platformConnections = {}
    /\ adAccounts = {}
    /\ adObjects = {}
    /\ spendings = {}
    /\ nextId = 1

EmptyQueue ==
    /\ jobs = {}
    /\ nextJobId = 1
    /\ api = ApiIdle
    /\ cli = CliIdle
    /\ completed = {}
    /\ pass = <<>>
    /\ readResult = NoRead

PassStep(j) ==
    \/ EnsurePlatformConnectionSelect(j)
    \/ EnsurePlatformConnectionInsert(j)
    \/ FetchAdAccountsPage(j)
    \/ UpsertAdAccount(j)
    \/ FetchInsightsPage(j)
    \/ BatchUpsertAdObjectsInsert(j)
    \/ BatchUpsertAdObjectsSelect(j)
    \/ BatchUpsertAdObjectsLink(j)
    \/ BatchUpsertSpendingsInsert(j)

-----------------------------------------------------------------------------
(* Spec: one start-sync request for calendar dates, the queue, and the     *)
(* worker running its chunk jobs concurrently, every pass interleaved at   *)
(* its awaits with the others, failing at any of them and being retried.   *)
(* The clock stands still here (SpecLedger moves it).                      *)

Init ==
    /\ ChunkIdle
    /\ remoteAccounts = <<AccountBrand>>
    /\ remoteRows = BrandRows
    /\ endlessPaging = FALSE
    /\ requests = {}
    /\ EmptyDatabase
    /\ now = 0
    /\ EmptyQueue

Next ==
    \/ \E s, e \in SyncDays :
          api.posted = 0 /\ PostSync(ParseDate(s), ParseDate(e))
    \/ AddJobsStep
    \/ AddJobsThrows
    \/ \E job \in jobs : GetJob(job.id)
    \/ \E job \in jobs : BackoffElapsed(job.id)
    \/ \E j \in Running : PassStep(j)
    \/ \E j \in Running : CompleteJob(j)
    \/ \E j \in Running : TaskThrows(j)
    \/ \E j \in Running : FailJob(j)

Spec == Init /\ [][Next]_vars

-----------------------------------------------------------------------------
(* Two accounts in different time zones, passes one at a time (a single    *)
(* worker slot).                                                           *)

\* the account in UTC+11 has one campaign and one ad reported on 2024-01-31,
\* and no ad-set level row
ClientRows ==
    << InsightRow(2, "campaign", 395, 5000, 40, 2),
       InsightRow(2, "ad", 395, 5000, 40, 2) >>

TwoAccountsInit ==
    /\ ChunkIdle
    /\ remoteAccounts = <<AccountBrand, AccountClient>>
    /\ remoteRows = BrandRows \o ClientRows
    /\ endlessPaging = FALSE
    /\ requests = {}
    /\ EmptyDatabase
    /\ now = 0
    /\ EmptyQueue

\* the worker with one slot
SerialWorker ==
    \/ \E job \in jobs : Running = {} /\ GetJob(job.id)
    \/ \E job \in jobs : BackoffElapsed(job.id)
    \/ \E j \in Running : PassStep(j)
    \/ \E j \in Running : CompleteJob(j)
    \/ \E j \in Running : TaskThrows(j)
    \/ \E j \in Running : FailJob(j)

-----------------------------------------------------------------------------
(* SpecSync: start-sync requests one after the other, each one's chunk     *)
(* jobs run one at a time against unchanged remote data.                   *)

\* start-sync requests made in one behaviour
MaxRequests == 2

SyncNext ==
    \/ \E s, e \in SyncDays :
          /\ api.posted < MaxRequests
          /\ jobs = {}
          /\ PostSync(ParseDate(s), ParseDate(e))
    \/ AddJobsStep
    \/ SerialWorker

SpecSync == TwoAccountsInit /\ [][SyncNext]_vars

-----------------------------------------------------------------------------
(* SpecLedger: one account; start-sync requests one after the other, their *)
(* chunk jobs run one at a time and retried, while the clock moves, the provider restates a day's spend *)
(* and the dashboard reads.  A read is taken between passes: a pass can    *)
(* fail at every await, so each database state a pass goes through is also *)
(* the state left by a failed pass, and no database state is kept from the *)
(* reads.                                                                  *)

\* the provider's restated spend for 2024-01-30 (attribution change)
Restated(r) ==
    IF r.account = 1 /\ r.date_start = 394 THEN [r EXCEPT !.spend = 11000] ELSE r

RestateRemote ==
    /\ remoteRows = BrandRows
    /\ remoteRows' = [i \in 1..Len(remoteRows) |-> Restated(remoteRows[i])]
    /\ UNCHANGED <<chunkVars, readResult, remoteAccounts, endlessPaging, requests, dbVars,
                   now, queueVars, pass>>

\* days a dashboard window may start or end on
ReadDays == {394, 395}

\* limit / offset pairs a listing is asked with
Paginations == {<<NULL, NULL>>, <<1, 1>>}

\* the response has been sent
ReadReturns ==
    /\ readResult # NoRead
    /\ readResult' = NoRead
    /\ UNCHANGED <<chunkVars, remoteVars, dbVars, now, queueVars, pass>>

LedgerNext ==
    \/ /\ readResult = NoRead
       /\ \/ \E s, e \in SyncDays :
                /\ api.posted < MaxRequests
                /\ jobs = {}
                /\ PostSync(ParseDate(s), ParseDate(e))
          \/ AddJobsStep
          \/ SerialWorker
          \/ Tick
          \/ RestateRemote
          \/ \E s, e \in ReadDays :
                /\ Running = {}
                /\ s <= e
                /\ GetAccountsWithSpending(ParseDate(s), ParseDate(e),
                                           DEFAULT_ORG_ID)
          \/ \E a \in adAccounts,
                parentId \in {NULL} \cup {o.id : o \in adObjects},
                s, e \in ReadDays, pg \in Paginations :
                /\ Running = {}
                /\ s <= e
                /\ GetObjectsWithSpending(a.id, parentId, ParseDate(s),
                                          ParseDate(e), pg[1], pg[2])
    \/ ReadReturns

SpecLedger == Init /\ [][LedgerNext]_vars

-----------------------------------------------------------------------------
(* Specification of the chunker alone: every pair of calendar dates        *)
(* start <= end of the window, then one call.                              *)

\* first day of the input window: 2023-12-20
WindowStart == 353
\* number of days after WindowStart the inputs range over (to 2024-03-09:
\* a year change, a 31-day month and the leap February)
MaxSpan == 80

WindowDays == WindowStart..(WindowStart + MaxSpan)

ChunkInit ==
    /\ cStart \in {ParseDate(d) : d \in WindowDays}
    /\ cEnd \in {ParseDate(d) : d \in WindowDays}
    /\ cStart <= cEnd
    /\ ranges = <<>>
    /\ cpc = "input"
    /\ remoteAccounts = <<>>
    /\ remoteRows = <<>>
    /\ endlessPaging = FALSE
    /\ requests = {}
    /\ EmptyDatabase
    /\ now = 0
    /\ EmptyQueue

RunChunker ==
    /\ cpc = "input"
    /\ ranges' = generateMonthlyDateRanges(cStart, cEnd)
    /\ cpc' = "done"
    /\ UNCHANGED <<cStart, cEnd, readResult, remoteVars, dbVars, now, queueVars, pass>>

ChunkNext == RunChunker

SpecChunker == ChunkInit /\ [][ChunkNext]_vars

-----------------------------------------------------------------------------
\* the calendar days of range r
RangeDays(r) == r.startDate..r.endDate

\* C1: for calendar dates start <= end the returned ranges are non-empty,
\* ascending, pairwise disjoint and contiguous (each starts the day after
\* the previous one ends), and their union is exactly the days start..end.
ChunkCoverage ==
    cpc = "done" =>
        /\ Len(ranges) >= 1
        /\ \A i \in 1..Len(ranges) : ranges[i].startDate <= ranges[i].endDate
        /\ \A i \in 1..(Len(ranges) - 1) :
              ranges[i + 1].startDate = ranges[i].endDate + 1
        /\ \A i, j \in 1..Len(ranges) :
              i < j => RangeDays(ranges[i]) \cap RangeDays(ranges[j]) = {}
        /\ UNION {RangeDays(ranges[i]) : i \in 1..Len(ranges)}
              = ISODate(cStart)..ISODate(cEnd)

\* 2024-01-31 .. 2024-03-01 gives three chunks, the middle one the whole
\* leap February (days 396..424)
ChunkCoverageWitness ==
    /\ cpc = "done"
    /\ Len(ranges) = 3
    /\ ranges[2] = [startDate |-> 396, endDate |-> 424]
    /\ ranges[1].startDate = ranges[1].endDate

-----------------------------------------------------------------------------
(* Enqueueing and running the chunk jobs of one request (Spec)             *)

\* C2: the batch of chunk jobs of one request is recorded all or nothing:
\* when recording a job of the batch fails, no job of that batch has been
\* persisted.
AtomicBatchEnqueue ==
    api.pc = "error" => Len(api.ids) = 0

\* C3: at every moment at most one sync_meta_ads job is executing, whatever
\* the worker's concurrency and the number of ready chunk jobs.
OneSyncAtATime ==
    Cardinality({job \in Locked : job.task_identifier = "sync_meta_ads"}) <= 1

\* C10: there is at most one platform connection row with platform 'META',
\* also when several chunk jobs run their first ensurePlatformConnection
\* concurrently against an empty table.
SingletonConnection ==
    Cardinality({c \in platformConnections : c.platform = "META"}) <= 1

\* C6: whatever the interleaving of passes (successful, failed, retried),
\* every step keeps every fact row already written, with all its fields:
\* the set of facts only grows.
FactsAppendOnly ==
    [][\A f \in spendings : f \in spendings']_vars

\* two passes running at once have both written facts (of different days),
\* one of them on the retry of a failed attempt
FactsAppendOnlyWitness ==
    /\ \E f, g \in spendings : f.periodStart # g.periodStart
    /\ Cardinality(Running) = 2
    /\ \E job \in jobs : job.attempts = 2 /\ job.last_error # ""

-----------------------------------------------------------------------------
(* Passes over two accounts, requests repeated (SpecSync)                  *)

\* C7: a pass over a chunk whose pass already ran to its end, against the
\* same remote data, leaves the connection, account and object rows as they
\* are (same ids, names and parent references), and no natural key
\* (connection, externalId) / (account, externalId) ever names two rows.
IdempotentDimensionUpsert ==
    /\ [](/\ \A a, b \in adAccounts :
               (/\ a.platformConnectionId = b.platformConnectionId
                /\ a.externalId = b.externalId) => a = b
          /\ \A o, q \in adObjects :
               (o.adAccountId = q.adAccountId /\ o.externalId = q.externalId)
                   => o = q)
    /\ [][(\E j \in Running : JobById(j).payload \in completed)
             => /\ platformConnections' = platformConnections
                /\ adAccounts' = adAccounts
                /\ adObjects' = adObjects]_vars

\* the second pass over a chunk has gone through both accounts and the
\* linked hierarchy of the first
IdempotentDimensionUpsertWitness ==
    /\ \E j \in Running : pass[j].pc = "done" /\ JobById(j).payload \in completed
    /\ Cardinality(adAccounts) = 2
    /\ \E o, q \in adObjects : o.type = "AD" /\ q.type = "AD_SET" /\ o.parentId = q.id

\* the calendar day of instant t on a clock offset hours ahead of UTC (less
\* than a day): the UTC day or one next to it
LocalDay(t, offset) ==
    CHOOSE d \in (ISODate(t) - 1)..(ISODate(t) + 1) :
        d * 24 <= t + offset /\ t + offset < (d + 1) * 24

\* the reporting time zone of the remote account numbered n
ReportingTimezone(n) ==
    remoteAccounts[CHOOSE i \in 1..Len(remoteAccounts) :
                       StripAct(remoteAccounts[i].id) = n].timezone_name

\* C8: the since / until sent for an account are the calendar days of the
\* job's start and end instants on that account's reporting clock, not the
\* UTC days.
TimezoneCorrectWindow ==
    \A r \in requests :
        /\ r.since = LocalDay(r.startDate, ReportingTimezone(r.account))
        /\ r.until = LocalDay(r.endDate, ReportingTimezone(r.account))

\* UTC midnight of 2024-01-31 was sent as 2024-01-30 for the UTC-3 account
\* and as 2024-01-31 for the UTC+11 account
TimezoneCorrectWindowWitness ==
    /\ \E r \in requests :
          r.account = 1 /\ r.startDate = ParseDate(395) /\ r.since = 394
    /\ \E r \in requests :
          r.account = 2 /\ r.startDate = ParseDate(395) /\ r.since = 395

\* the time ranges the chunk jobs of the last request sent for account n
RequestsOfBatch(n) ==
    {r \in requests : r.account = n /\ \E i \in 1..Len(api.ids) : api.ids[i] = r.job}

\* C9: once every chunk job of an accepted request has asked for every
\* account, the days asked for an account are exactly startDate..endDate of
\* the request, both included, whatever the account's time zone.
BothDatesInclusive ==
    (/\ api.pc = "accepted"
     /\ \A i \in 1..Len(api.ids) : \A a \in 1..Len(remoteAccounts) :
           \E r \in RequestsOfBatch(StripAct(remoteAccounts[a].id)) :
              r.job = api.ids[i])
    => \A a \in 1..Len(remoteAccounts) :
          UNION {r.since..r.until :
                    r \in RequestsOfBatch(StripAct(remoteAccounts[a].id))}
              = ISODate(api.startDate)..ISODate(api.endDate)

-----------------------------------------------------------------------------
(* Reads over collected and re-collected facts (SpecLedger)                *)

\* the facts whose period starts on a day of the read's window
FactsOfRead ==
    {f \in spendings :
        ISODate(f.periodStart) \in
            ISODate(readResult.startDate)..ISODate(readResult.endDate)}

\* the facts of the window not followed by a later collected fact of the
\* same object and period
CurrentFacts ==
    {f \in FactsOfRead :
        ~\E g \in FactsOfRead : /\ g.adObjectId = f.adObjectId
                                /\ g.periodStart = f.periodStart
                                /\ g.collectedAt > f.collectedAt}

\* every (object, period) of the window has one newest fact
OneNewestPerKey ==
    \A f, g \in CurrentFacts :
        (g.adObjectId = f.adObjectId /\ g.periodStart = f.periodStart) => f = g

ObjectOfFact(f) == CHOOSE o \in adObjects : o.id = f.adObjectId

\* the current facts of the AD objects of account accountId
LeafFacts(accountId) ==
    {f \in CurrentFacts : /\ ObjectOfFact(f).type = "AD"
                          /\ ObjectOfFact(f).adAccountId = accountId}

\* C4: when the facts of a key were collected at T1 < T2, every aggregation
\* read (account rollup, object listing) counts the T2 fact only: an
\* account's spend is the sum of the newest facts of its ads, an object's
\* spend the sum of its newest facts.
LatestWinsRead ==
    /\ (readResult.op = "getAccountsWithSpending" /\ OneNewestPerKey) =>
          \A row \in readResult.rows :
              row.totalSpendCents =
                  SumValues({<<f.id, f.amountCents>> : f \in LeafFacts(row.id)})
    /\ (readResult.op = "getObjectsWithSpending" /\ OneNewestPerKey) =>
          \A i \in 1..Len(readResult.page.data) :
              readResult.page.data[i].spendCents =
                  SumValues({<<f.id, f.amountCents>> :
                      f \in {g \in CurrentFacts :
                                g.adObjectId = readResult.page.data[i].id}})

\* an ad's day was collected twice with different amounts, and the account
\* rollup of that day returned the later amount
LatestWinsReadWitness ==
    /\ readResult.op = "getAccountsWithSpending"
    /\ OneNewestPerKey
    /\ readResult.startDate = readResult.endDate
    /\ \E f, g \in FactsOfRead :
          /\ f.adObjectId = g.adObjectId
          /\ f.periodStart = g.periodStart
          /\ ObjectOfFact(f).type = "AD"
          /\ f.collectedAt < g.collectedAt
          /\ f.amountCents # g.amountCents
          /\ f.amountCents > 0
          /\ \E row \in readResult.rows : row.totalSpendCents = g.amountCents

\* x, or 0 for NULL
ValueOrZero(x) == IF x = NULL THEN 0 ELSE x

\* C5: the account rollup's totals (spend, impressions, clicks) of an
\* account are the sums over the current facts of its AD objects only; the
\* facts of CAMPAIGN and AD_SET objects do not count.
LeafOnlyRollup ==
    (readResult.op = "getAccountsWithSpending" /\ OneNewestPerKey) =>
        \A row \in readResult.rows :
            /\ row.totalSpendCents =
                  SumValues({<<f.id, f.amountCents>> : f \in LeafFacts(row.id)})
            /\ row.totalImpressions =
                  SumValues({<<f.id, ValueOrZero(f.impressions)>> :
                                f \in LeafFacts(row.id)})
            /\ row.totalClicks =
                  SumValues({<<f.id, ValueOrZero(f.clicks)>> :
                                f \in LeafFacts(row.id)})

\* the same spend is recorded at the three levels, and the rollup returned
\* the ad level's amount
LeafOnlyRollupWitness ==
    /\ readResult.op = "getAccountsWithSpending"
    /\ OneNewestPerKey
    /\ \E c, t, a \in CurrentFacts :
          /\ ObjectOfFact(c).type = "CAMPAIGN"
          /\ ObjectOfFact(t).type = "AD_SET"
          /\ ObjectOfFact(a).type = "AD"
          /\ c.amountCents > 0
          /\ t.amountCents = c.amountCents
          /\ a.amountCents = c.amountCents
          /\ \E row \in readResult.rows :
                /\ row.id = ObjectOfFact(a).adAccountId
                /\ row.totalSpendCents >= a.amountCents
                /\ row.totalSpendCents < 2 * a.amountCents

-----------------------------------------------------------------------------
(* SpecHierarchy: one account whose rows carry whatever hierarchy ids the  *)
(* provider sends; one start-sync request, its chunk jobs run one at a     *)
(* time and retried.                                                       *)

\* external ids the provider's rows are made of
ExternalIds == {"x", "y"}

\* one MetaInsight row of account 1 with the given hierarchy ids ('' for a
\* field the level's query does not ask for)
HierarchyRow(level, day, campaign_id, adset_id, ad_id) ==
    [ account       |-> 1,
      level         |-> level,
      date_start    |-> day,
      spend         |-> 1000,
      impressions   |-> 10,
      clicks        |-> 1,
      campaign_id   |-> campaign_id,
      campaign_name |-> "",
      adset_id      |-> adset_id,
      adset_name    |-> "",
      ad_id         |-> ad_id,
      ad_name       |-> "" ]

\* an ad-set level row on 2024-01-30, one on 2024-01-31, and an ad level
\* row on 2024-01-31
HierarchyInit ==
    /\ ChunkIdle
    /\ remoteAccounts = <<AccountBrand>>
    /\ \E c1, s1, c2, s2, s3, a3 \in ExternalIds :
          remoteRows = << HierarchyRow("adset", 394, c1, s1, ""),
                          HierarchyRow("adset", 395, c2, s2, ""),
                          HierarchyRow("ad", 395, "", s3, a3) >>
    /\ endlessPaging = FALSE
    /\ requests = {}
    /\ EmptyDatabase
    /\ now = 0
    /\ EmptyQueue

HierarchyNext ==
    \/ \E s, e \in SyncDays :
          api.posted = 0 /\ PostSync(ParseDate(s), ParseDate(e))
    \/ AddJobsStep
    \/ SerialWorker

SpecHierarchy == HierarchyInit /\ [][HierarchyNext]_vars

\* the row o's parent reference names
ParentOf(o) == CHOOSE q \in adObjects : q.id = o.parentId

\* C11: no hierarchy object is its own parent, the parent references of an
\* object lead to a root within a chain of at most 3 objects (so without
\* coming back to an object), and a parent is of its child's account.
HierarchyForest ==
    \A o \in adObjects :
        /\ o.parentId # o.id
        /\ o.parentId # NULL =>
              /\ \E q \in adObjects : q.id = o.parentId
              /\ ParentOf(o).adAccountId = o.adAccountId
              /\ ParentOf(o).parentId # NULL =>
                    ParentOf(ParentOf(o)).parentId = NULL

-----------------------------------------------------------------------------
(* Object listing ratios (SpecLedger)                                      *)

\* C12: every row of an object listing has finite ctr, cpc and cpm (a
\* fraction with a non-zero denominator); ctr and cpm are 0 when
\* impressions = 0 and cpc is 0 when clicks = 0, whatever the spend.
ZeroDenominatorGuard ==
    readResult.op = "getObjectsWithSpending" =>
        \A i \in 1..Len(readResult.page.data) :
            LET row == readResult.page.data[i]
            IN  /\ row.ctr[2] # 0 /\ row.cpc[2] # 0 /\ row.cpm[2] # 0
                /\ row.impressions = 0 => (row.ctr[1] = 0 /\ row.cpm[1] = 0)
                /\ row.clicks = 0 => row.cpc[1] = 0

\* a listed object has spend but neither impressions nor clicks
ZeroDenominatorGuardWitness ==
    /\ readResult.op = "getObjectsWithSpending"
    /\ \E i \in 1..Len(readResult.page.data) :
          /\ readResult.page.data[i].spendCents > 0
          /\ readResult.page.data[i].impressions = 0
          /\ readResult.page.data[i].clicks = 0

-----------------------------------------------------------------------------
(* SpecTrigger: a sync started once, through POST /api/sync or through the *)
(* trigger-sync script, with any two dates; the chunk jobs run one at a    *)
(* time.                                                                   *)

TriggerNext ==
    \/ \E s, e \in SyncDays :
          /\ api.posted = 0
          /\ cli.pc = "idle"
          /\ PostSync(ParseDate(s), ParseDate(e))
    \/ AddJobsStep
    \/ AddJobsThrows
    \/ \E s, e \in SyncDays : api.posted = 0 /\ TriggerSync(s, e)
    \/ TriggerSyncAddJob
    \/ TriggerSyncThrows
    \/ SerialWorker

SpecTrigger == Init /\ [][TriggerNext]_vars

\* C13: whichever entry point is used, a request with endDate < startDate
\* enqueues nothing: no job in the queue has startDate > endDate.
NoInvertedJob ==
    \A job \in jobs : job.payload.startDate <= job.payload.endDate

-----------------------------------------------------------------------------
(* Errors inside a chunk job (Spec)                                        *)

\* C14: an error raised inside a chunk job aborts the whole pass: the step
\* that raises it writes nothing, a pass in which an error was raised runs no
\* further step, and the only thing that happens to it is that the worker
\* marks the job failed with that error, the database untouched.
ErrorAbortsPass ==
    /\ [](\A j \in Running : pass[j].error # "" => pass[j].pc = "rejected")
    /\ [][\A j \in Running :
            /\ (j \in Running' /\ pass[j].error = "" /\ pass'[j].error # "")
                  => (dbVars' = dbVars /\ requests' = requests)
            /\ pass[j].error # "" =>
                  IF j \in Running'
                  THEN pass'[j] = pass[j]
                  ELSE /\ dbVars' = dbVars
                       /\ \E job \in jobs' : /\ job.id = j
                                             /\ ~job.locked
                                             /\ job.last_error = pass[j].error]_vars

\* the remote listing of insights failed after the account row was written,
\* before any object row
ErrorAbortsPassWitness ==
    /\ adAccounts # {}
    /\ adObjects = {}
    /\ \E j \in Running : pass[j].pc = "rejected" /\ pass[j].error = "Meta API error (500): body"
    /\ \E job \in jobs : ~job.locked /\ job.last_error = "Meta API error (500): body"

-----------------------------------------------------------------------------
(* SpecRetry: two accounts, one start-sync request against unchanged       *)
(* remote data, its chunk jobs run one at a time, failing at any await and *)
(* retried, while the clock moves; the dashboard reads when the queue is   *)
(* empty.                                                                  *)

RetryNext ==
    \/ /\ readResult = NoRead
       /\ \/ \E s, e \in SyncDays :
                api.posted = 0 /\ PostSync(ParseDate(s), ParseDate(e))
          \/ AddJobsStep
          \/ SerialWorker
          \/ Tick
          \/ \E s, e \in ReadDays :
                /\ jobs = {}
                /\ s <= e
                /\ GetAccountsWithSpending(ParseDate(s), ParseDate(e),
                                           DEFAULT_ORG_ID)
          \/ \E a \in adAccounts,
                parentId \in {NULL} \cup {o.id : o \in adObjects},
                s, e \in ReadDays, pg \in Paginations :
                /\ jobs = {}
                /\ s <= e
                /\ GetObjectsWithSpending(a.id, parentId, ParseDate(s),
                                          ParseDate(e), pg[1], pg[2])
    \/ ReadReturns

SpecRetry == TwoAccountsInit /\ [][RetryNext]_vars

\* every chunk job of the accepted request has run to its end
RequestDone ==
    /\ api.pc = "accepted"
    /\ jobs = {}
    /\ \A i \in 1..Len(api.dateRanges) : api.dateRanges[i] \in completed

\* what one pass over chunk lists for the remote account numbered n, the
\* three levels in the order they are fetched
ChunkListing(n, chunk) ==
    LET tr == TimeRange(ParseDate(chunk.startDate), ParseDate(chunk.endDate),
                        ReportingTimezone(n))
    IN  RemoteListing(remoteRows, n, "campaign", tr.since, tr.until)
          \o RemoteListing(remoteRows, n, "adset", tr.since, tr.until)
          \o RemoteListing(remoteRows, n, "ad", tr.since, tr.until)

\* the remote rows a pass per chunk of the request lists for account n
ListedRows(n) ==
    UNION {{ChunkListing(n, api.dateRanges[i])[x] :
                x \in 1..Len(ChunkListing(n, api.dateRanges[i]))} :
           i \in 1..Len(api.dateRanges)}

\* the objects one pass per chunk derives for account n, by external id
DerivedObjects(n) ==
    UNION {{DeriveAdObjects(ChunkListing(n, api.dateRanges[i]))[x] :
                x \in 1..Len(DeriveAdObjects(ChunkListing(n, api.dateRanges[i])))} :
           i \in 1..Len(api.dateRanges)}

\* the stored objects of the account row a, by external id
StoredObjects(a) ==
    {[ externalId |-> o.externalId, type |-> o.type, name |-> o.name,
       parentExternalId |-> IF o.parentId = NULL THEN ""
                            ELSE ParentOf(o).externalId ] :
        o \in {q \in adObjects : q.adAccountId = a.id}}

\* the listed rows of account n whose fact goes to object e and whose day is
\* in the window of the read
RowsInRead(n, e) ==
    {r \in ListedRows(n) :
        /\ RowObjectExternalId(r) = e
        /\ r.date_start \in
              ISODate(readResult.startDate)..ISODate(readResult.endDate)}

\* the spend of a set of remote rows, each row once, in cents
SpendOfRows(R) == SumValues({<<r, AmountCents(r.spend)>> : r \in R})

\* C15: once every chunk job of a request has run to its end, after however
\* many failed attempts that had committed part of their writes, the
\* dimension rows and every aggregation read are those of passes that never
\* failed: one connection, one account row per remote account, one object
\* row per derived object with its name and parent, and reads that count
\* every listed remote row once.
RetryConvergence ==
    RequestDone =>
        /\ Cardinality(platformConnections) = 1
        /\ Cardinality(adAccounts) = Len(remoteAccounts)
        /\ \A i \in 1..Len(remoteAccounts) :
              \E a \in adAccounts :
                  /\ a.externalId = StripAct(remoteAccounts[i].id)
                  /\ a.name = remoteAccounts[i].name
                  /\ a.currency = remoteAccounts[i].currency
                  /\ a.timezone = remoteAccounts[i].timezone_name
                  /\ StoredObjects(a) = DerivedObjects(a.externalId)
                  /\ Cardinality({o \in adObjects : o.adAccountId = a.id})
                        = Cardinality(DerivedObjects(a.externalId))
        /\ readResult.op = "getAccountsWithSpending" =>
              /\ Cardinality(readResult.rows) = Len(remoteAccounts)
              /\ \A row \in readResult.rows : \E a \in adAccounts :
                    /\ row.id = a.id
                    /\ row.totalSpendCents =
                          SpendOfRows(UNION {RowsInRead(a.externalId, o.externalId) :
                              o \in {q \in adObjects : /\ q.adAccountId = a.id
                                                       /\ q.type = "AD"}})
        /\ readResult.op = "getObjectsWithSpending" =>
              \A i \in 1..Len(readResult.page.data) :
                  \E a \in adAccounts :
                      /\ a.id = readResult.accountId
                      /\ readResult.page.data[i].spendCents =
                            SpendOfRows(RowsInRead(a.externalId,
                                            readResult.page.data[i].externalId))

\* the first attempt failed after the facts of the first account were
\* written, the retry wrote them again, and the account rollup was read
RetryConvergenceWitness ==
    /\ RequestDone
    /\ readResult.op = "getAccountsWithSpending"
    /\ \E row \in readResult.rows : row.totalSpendCents > 0
    /\ \E f, g \in spendings : /\ f.id # g.id
                               /\ f.adObjectId = g.adObjectId
                               /\ f.periodStart = g.periodStart
                               /\ f.collectedAt < g.collectedAt

-----------------------------------------------------------------------------
(* Concurrent upserts of one natural key (Spec)                            *)

-----------------------------------------------------------------------------
(* Facts written by one pass (SpecSync)                                    *)

\* the steps of a pass after which it is done with the account it was on
LeavesAccount(j) ==
    /\ j \in Running'
    /\ pass[j].k >= 1
    /\ pass[j].pc \in {"fetchInsights", "selectObjects", "updateParent",
                       "insertSpendings"}
    /\ pass'[j].pc \in {"upsertAccount", "done"}

\* the rows the provider lists for the account the pass of job j is on,
\* that carry a hierarchy id
RowsWithHierarchyId(j) ==
    LET listing == ChunkListing(StripAct(pass[j].metaAccounts[pass[j].k].id),
                                JobById(j).payload)
    IN  {x \in 1..Len(listing) : RowObjectExternalId(listing[x]) # ""}

\* C17: a pass adds one fact per remote row of the account that carries a
\* hierarchy id, and nothing else: the number of stored facts grows by
\* exactly that number when the pass is done with the account, also when
\* the values are those of facts already stored, and no other step of the
\* pass changes the facts.
EveryPassAppends ==
    [][\A j \in Running :
          IF LeavesAccount(j)
          THEN Cardinality(spendings') =
                  Cardinality(spendings) + Cardinality(RowsWithHierarchyId(j))
          ELSE spendings' = spendings]_vars

\* a pass has run to its end and two stored facts differ in their id only
EveryPassAppendsWitness ==
    /\ \E j \in Running : pass[j].pc = "done"
    /\ \E f, g \in spendings : f.id # g.id /\ [f EXCEPT !.id = g.id] = g

-----------------------------------------------------------------------------
(* Shape of the chunks (SpecChunker)                                       *)

\* the first days of the calendar months around the input window:
\* 2023-12-01, 2024-01-01, 2024-02-01, 2024-03-01, 2024-04-01
MonthStarts == {334, 365, 396, 425, 456}

\* the months of the table that have begun by day d
MonthIndex(d) == Cardinality({s \in MonthStarts : s <= d})

-----------------------------------------------------------------------------
(* What POST /api/sync answers (Spec)                                      *)

\* the job row of id, or the fact that it ran to its end and was deleted
PersistedAs(id, chunk) ==
    \/ \E job \in jobs : /\ job.id = id
                         /\ job.task_identifier = "sync_meta_ads"
                         /\ job.payload = chunk
    \/ /\ \A job \in jobs : job.id # id
       /\ chunk \in completed

\* C19: a start-sync call that is answered 202 has enqueued one job per
\* chunk and reports it: the chunk count is the number of ranges of the
\* chunker and the number of returned ids, the ids are distinct, and the
\* i-th id is that of a job recorded with the i-th chunk as its payload
\* (recorded in the step that returned the id, and kept until its task has
\* run to its end).
FaithfulStartSync ==
    /\ [](api.pc = "accepted" =>
             /\ api.dateRanges =
                   generateMonthlyDateRanges(api.startDate, api.endDate)
             /\ Len(api.ids) = Len(api.dateRanges)
             /\ \A x, y \in 1..Len(api.ids) : api.ids[x] = api.ids[y] => x = y
             /\ \A x \in 1..Len(api.ids) :
                   PersistedAs(api.ids[x], api.dateRanges[x]))
    /\ [][(api.pc = "adding" /\ api'.ids # api.ids) =>
             /\ Len(api'.ids) = Len(api.ids) + 1
             /\ \E job \in jobs' \ jobs :
                   /\ job.id = api'.ids[Len(api'.ids)]
                   /\ job.task_identifier = "sync_meta_ads"
                   /\ job.payload = api.dateRanges[Len(api'.ids)]]_vars

\* a call for two months has been answered and both jobs are waiting
FaithfulStartSyncWitness ==
    /\ api.pc = "accepted"
    /\ Len(api.dateRanges) = 2
    /\ api.dateRanges[1] # api.dateRanges[2]
    /\ \A x \in 1..2 : \E job \in jobs : job.id = api.ids[x] /\ ~job.locked

-----------------------------------------------------------------------------
(* SpecFair: one start-sync request, one worker slot, tasks failing at any *)
(* await.  The worker keeps polling and running what it has started, and   *)
(* the run_at of a failed job is reached; that a call throws is never      *)
(* forced.                                                                 *)

FairNext ==
    \/ \E s, e \in SyncDays :
          api.posted = 0 /\ PostSync(ParseDate(s), ParseDate(e))
    \/ AddJobsStep
    \/ SerialWorker

SpecFair ==
    /\ Init
    /\ [][FairNext]_vars
    /\ WF_vars(AddJobsStep)
    /\ WF_vars(\E job \in jobs : Running = {} /\ GetJob(job.id))
    /\ WF_vars(\E job \in jobs : BackoffElapsed(job.id))
    /\ WF_vars(\E j \in Running : PassStep(j))
    /\ WF_vars(\E j \in Running : CompleteJob(j))
    /\ WF_vars(\E j \in Running : FailJob(j))

\* the ids of the chunk jobs of the request
ChunkJobIds == 1..2

\* job id has failed, is not being run, and has attempts left
FailedWaiting(id) ==
    \E job \in jobs : /\ job.id = id
                      /\ job.last_error # ""
                      /\ ~job.locked
                      /\ job.attempts < MaxAttempts

\* a task for job id has just been started: nothing of an earlier attempt is
\* left, its first step is the connection lookup
FreshAttempt(id) ==
    /\ id \in Running
    /\ pass[id] = NewPass(JobById(id))
    /\ pass[id].pc = "ensureSelect"

\* C20: a chunk job whose task raised an error keeps its row, with the
\* error text of that failure in last_error and its payload unchanged; while
\* it has attempts left it is run again, the new attempt starting from the
\* connection lookup; a job is never attempted more than MaxAttempts times.
FailedJobRetried ==
    /\ [](\A job \in jobs : job.attempts <= MaxAttempts)
    /\ [][\A j \in Running :
             (pass[j].pc = "rejected" /\ j \notin Running') =>
                 /\ pass[j].error # ""
                 /\ \E job \in jobs' :
                       /\ job.id = j
                       /\ job.payload = JobById(j).payload
                       /\ job.attempts = JobById(j).attempts
                       /\ job.last_error = pass[j].error
                       /\ ~job.locked]_vars
    /\ \A id \in ChunkJobIds : FailedWaiting(id) ~> FreshAttempt(id)

\* the second attempt of a job that failed has just started
FailedJobRetriedWitness ==
    \E j \in Running :
        /\ JobById(j).last_error # ""
        /\ JobById(j).attempts = 2
        /\ pass[j] = NewPass(JobById(j))

-----------------------------------------------------------------------------
(* SpecPayload: jobs queued directly in the database, with payloads the    *)
(* task's schema accepts and payloads it does not; one worker slot, the    *)
(* same fairness as SpecFair.                                              *)

\* jobs queued directly in one behaviour
MaxDirectJobs == 2

DirectPayloads ==
    { [startDate |-> 395, endDate |-> 395],
      [startDate |-> InvalidDate, endDate |-> 395],
      [startDate |-> 395, endDate |-> InvalidDate] }

PayloadNext ==
    \/ \E payload \in DirectPayloads :
          nextJobId <= MaxDirectJobs /\ DirectAddJob(payload)
    \/ SerialWorker

SpecPayload ==
    /\ Init
    /\ [][PayloadNext]_vars
    /\ WF_vars(\E job \in jobs : Running = {} /\ GetJob(job.id))
    /\ WF_vars(\E job \in jobs : BackoffElapsed(job.id))
    /\ WF_vars(\E j \in Running : PassStep(j))
    /\ WF_vars(\E j \in Running : CompleteJob(j))
    /\ WF_vars(\E j \in Running : FailJob(j))

\* the job of id j has a payload the schema rejects
InvalidJob(j) == \E job \in jobs : job.id = j /\ ~PayloadValid(job.payload)

\* C21: a dequeued job whose payload fails the schema check throws
\* 'Invalid sync_meta_ads payload' at once: its task is never at a position
\* that calls the provider or the database, and no step made while it runs
\* changes the database or sends a request.  The worker handles the failure
\* as any other: the row stays, unlocked, with the error text and a later
\* run_at, and while attempts are left the job is run again.
InvalidPayloadRetried ==
    /\ [](\A j \in Running :
             InvalidJob(j) =>
                 /\ pass[j].pc = "rejected"
                 /\ pass[j].error = "Invalid sync_meta_ads payload")
    /\ [][(\E j \in Running \cup Running' : InvalidJob(j)) =>
             UNCHANGED <<dbVars, remoteVars>>]_vars
    /\ [][\A j \in Running :
             (InvalidJob(j) /\ j \notin Running') =>
                 jobs' = (jobs \ {JobById(j)}) \cup
                    {[JobById(j) EXCEPT
                         !.locked = FALSE, !.backoff = TRUE,
                         !.last_error = "Invalid sync_meta_ads payload"]}]_vars
    /\ \A id \in 1..MaxDirectJobs :
          (InvalidJob(id) /\ FailedWaiting(id)) ~> (id \in Running)

\* the second attempt of a job with a rejected payload has been started
InvalidPayloadRetriedWitness ==
    \E j \in Running :
        /\ InvalidJob(j)
        /\ JobById(j).attempts = 2
        /\ JobById(j).last_error = "Invalid sync_meta_ads payload"

-----------------------------------------------------------------------------
(* SpecAuth: one POST /api/sync, with or without a session, and the worker *)

AuthNext ==
    \/ \E userId \in {NoUser, "user_test123"}, s, e \in SyncDays :
          api.posted = 0 /\ AppPostSync(userId, ParseDate(s), ParseDate(e))
    \/ AddJobsStep
    \/ AddJobsThrows
    \/ SerialWorker

SpecAuth == Init /\ [][AuthNext]_vars

\* C22: a POST /api/sync without an authenticated user is answered 401 and
\* does not reach the handler, so no job is enqueued for it.
UnauthenticatedSyncRejected ==
    (api.posted > 0 /\ ~requireAuth(api.userId)) =>
        /\ api.pc = "unauthorized"
        /\ jobs = {}
        /\ completed = {}

-----------------------------------------------------------------------------
(* SpecLink: the rows of one day of one account in every order             *)

\* a row naming a campaign, a row naming the campaign and its ad set, and a
\* row naming the ad set and its ad; all of 2024-01-31 and of one listing,
\* so that the listing's order is the order batchUpsertAdObjects sees
LinkRows ==
    << HierarchyRow("ad", 395, "c1", "", ""),
       HierarchyRow("ad", 395, "c1", "s1", ""),
       HierarchyRow("ad", 395, "", "s1", "a1") >>

RowOrders(n) ==
    {f \in [1..n -> 1..n] : \A x, y \in 1..n : f[x] = f[y] => x = y}

LinkInit ==
    /\ ChunkIdle
    /\ remoteAccounts = <<AccountBrand>>
    /\ \E perm \in RowOrders(Len(LinkRows)) :
          remoteRows = [x \in 1..Len(LinkRows) |-> LinkRows[perm[x]]]
    /\ endlessPaging = FALSE
    /\ requests = {}
    /\ EmptyDatabase
    /\ now = 0
    /\ EmptyQueue

LinkNext ==
    \/ \E s, e \in SyncDays :
          api.posted = 0 /\ PostSync(ParseDate(s), ParseDate(e))
    \/ AddJobsStep
    \/ SerialWorker

SpecLink == LinkInit /\ [][LinkNext]_vars

\* the objects stored for the account the pass of job j is on
ObjectsOfPass(j) == {o \in adObjects : o.adAccountId = pass[j].dbAccountId}

\* C23: when batchUpsertAdObjects has returned, every object it derived
\* with a parent external id whose object exists in the account refers to
\* that object as its parent, whatever the order of the rows.
ParentsLinkedInAnyOrder ==
    \A j \in Running :
        pass[j].pc = "insertSpendings" =>
            \A idx \in 1..Len(pass[j].toUpsert) :
                LET obj == pass[j].toUpsert[idx]
                IN  (/\ obj.parentExternalId # ""
                     /\ \E q \in ObjectsOfPass(j) :
                           q.externalId = obj.parentExternalId) =>
                        \E o, q \in ObjectsOfPass(j) :
                            /\ o.externalId = obj.externalId
                            /\ q.externalId = obj.parentExternalId
                            /\ o.parentId = q.id

\* the row of the ad came first, before the rows that name the campaign,
\* and the ad refers to its ad set
ParentsLinkedInAnyOrderWitness ==
    /\ remoteRows[1].ad_id = "a1"
    /\ \E j \in Running :
          /\ pass[j].pc = "insertSpendings"
          /\ \E o, q \in ObjectsOfPass(j) :
                /\ o.externalId = "a1"
                /\ q.externalId = "s1"
                /\ o.parentId = q.id

-----------------------------------------------------------------------------
(* Order of the steps of one pass (SpecSync)                               *)

\* the steps of sync in the order of its text
StepRank(ps) ==
    CASE ps.pc = "ensureSelect"    -> 1
      [] ps.pc = "ensureInsert"    -> 2
      [] ps.pc = "fetchAccounts"   -> 3
      [] ps.pc = "upsertAccount"   -> 4
      [] ps.pc = "fetchInsights" /\ ps.level = "campaign" -> 5
      [] ps.pc = "fetchInsights" /\ ps.level = "adset"    -> 6
      [] ps.pc = "fetchInsights" /\ ps.level = "ad"       -> 7
      [] ps.pc = "insertObjects"   -> 8
      [] ps.pc = "selectObjects"   -> 9
      [] ps.pc = "updateParent"    -> 10
      [] ps.pc = "insertSpendings" -> 11
      [] ps.pc = "done"            -> 12
      [] OTHER                     -> 0

\* the steps that can follow a step while the pass stays on one account
RankAfter(r) ==
    CASE r = 1  -> {2, 3}
      [] r = 2  -> {3}
      [] r = 3  -> {3}
      [] r = 4  -> {5}
      [] r = 5  -> {5, 6}
      [] r = 6  -> {6, 7}
      [] r = 7  -> {7, 8}
      [] r = 8  -> {9}
      [] r = 9  -> {10, 11}
      [] r = 10 -> {10, 11}
      [] r = 11 -> {11}
      [] OTHER  -> {}

\* an account is finished by the last page of the ad level when no row
\* names an object, by the read of the id map or the last link when no
\* fact is derived, and else by the last insert of facts; the discovery is
\* finished by the last page of the accounts
EndsAccount(ps) ==
    IF ps.k = 0 THEN StepRank(ps) = 3 ELSE StepRank(ps) \in {7, 9, 10, 11}

\* C24: the steps of a pass follow each other in the order start,
\* connection resolved, accounts discovered, then per account, in the
\* order of discovery: account upserted, rows fetched at campaign, ad-set
\* and ad level, objects upserted, parents linked, facts appended; a pass
\* moves to the next account only from the end of the one before, and is
\* done only from the end of the last account.
PassStepOrder ==
    [][\A j \in Running \cap Running' :
          LET a == pass[j]
              b == pass'[j]
          IN  (a # b /\ b.pc # "rejected") =>
                /\ StepRank(a) \in 1..11
                /\ StepRank(b) \in 1..12
                /\ StepRank(b) >= 3 => b.connectionId # NULL
                /\ b.k >= 1 => b.metaAccounts = remoteAccounts
                /\ (b.k = a.k /\ b.pc # "done") =>
                      StepRank(b) \in RankAfter(StepRank(a))
                /\ b.k # a.k =>
                      /\ b.k = a.k + 1
                      /\ b.pc = "upsertAccount"
                      /\ EndsAccount(a)
                /\ b.pc = "done" =>
                      /\ EndsAccount(a)
                      /\ b.k = a.k
                      /\ b.k = Len(b.metaAccounts)
                /\ StepRank(a) = 4 =>
                      \E r \in adAccounts' :
                          /\ r.id = b.dbAccountId
                          /\ r.externalId = StripAct(a.metaAccounts[a.k].id)]_vars

\* a pass over two accounts is done and facts of both are stored
PassStepOrderWitness ==
    \E j \in Running :
        /\ pass[j].pc = "done"
        /\ pass[j].k = 2
        /\ \A acc \in adAccounts :
              \E o \in adObjects, f \in spendings :
                  o.adAccountId = acc.id /\ f.adObjectId = o.id
        /\ Cardinality(adAccounts) = 2

-----------------------------------------------------------------------------
(* SpecPages: listings of several pages.  Three accounts; the first has    *)
(* five campaign level rows and four ad-set level rows on 2024-01-30 and   *)
(* no ad level row.                                                        *)

AccountAgency == MetaAdAccount(3, "Agency", "USD", 0)

PagedRows ==
    << HierarchyRow("campaign", 394, "c1", "", ""),
       HierarchyRow("campaign", 394, "c2", "", ""),
       HierarchyRow("campaign", 394, "c3", "", ""),
       HierarchyRow("campaign", 394, "c4", "", ""),
       HierarchyRow("campaign", 394, "c5", "", ""),
       HierarchyRow("adset", 394, "c1", "s1", ""),
       HierarchyRow("adset", 394, "c1", "s2", ""),
       HierarchyRow("adset", 394, "c2", "s3", ""),
       HierarchyRow("adset", 394, "c2", "s4", "") >>

PagesInit ==
    /\ ChunkIdle
    /\ remoteAccounts = <<AccountBrand, AccountClient, AccountAgency>>
    /\ remoteRows = PagedRows
    /\ endlessPaging = FALSE
    /\ requests = {}
    /\ EmptyDatabase
    /\ now = 0
    /\ EmptyQueue

PagesNext ==
    \/ \E s, e \in SyncDays :
          api.posted = 0 /\ PostSync(ParseDate(s), ParseDate(e))
    \/ AddJobsStep
    \/ SerialWorker

SpecPages == PagesInit /\ [][PagesNext]_vars

\* the listing the pass ps is reading
ListingOf(ps) ==
    IF ps.pc = "fetchAccounts" THEN remoteAccounts
    ELSE RemoteListing(remoteRows, StripAct(ps.metaAccounts[ps.k].id),
                       ps.level, ps.timeRange.since, ps.timeRange.until)

\* the pages the provider cuts a listing into: an empty listing is one
\* empty page
NumPages(listing) ==
    IF Len(listing) = 0 THEN 1 ELSE (Len(listing) + PageSize - 1) \div PageSize

\* the items of the first n pages
FirstPages(listing, n) ==
    SubSeq(listing, 1, IF n * PageSize < Len(listing) THEN n * PageSize
                       ELSE Len(listing))

\* C25: fetchAllPages asks for one page after the other until a page names
\* no next one: after n requests it holds the items of the first n pages in
\* order, it goes on exactly while pages are left, and it returns the whole
\* listing after as many requests as the listing has pages.
AllPagesFollowed ==
    [][\A j \in Running \cap Running' :
          LET a == pass[j]
              b == pass'[j]
              listing == ListingOf(a)
          IN  (a.pc \in {"fetchAccounts", "fetchInsights"}
                  /\ a # b /\ b.pc # "rejected") =>
                IF b.pc = a.pc /\ b.level = a.level /\ b.k = a.k
                THEN /\ b.calls = a.calls + 1
                     /\ b.calls < NumPages(listing)
                     /\ b.results = FirstPages(listing, b.calls)
                ELSE /\ a.calls + 1 = NumPages(listing)
                     /\ a.results = FirstPages(listing, a.calls)
                     /\ a.pc = "fetchAccounts" => b.metaAccounts = listing
                     /\ (a.pc = "fetchInsights" /\ b.k = a.k /\ b.pc # "done")
                           => b.insights = a.insights \o listing]_vars

\* the five campaign level rows have been returned and the second page of
\* the ad-set level is being asked for
AllPagesFollowedWitness ==
    \E j \in Running :
        /\ pass[j].pc = "fetchInsights"
        /\ pass[j].level = "adset"
        /\ pass[j].calls = 1
        /\ Len(pass[j].insights) = 5
        /\ Len(pass[j].metaAccounts) = 3

-----------------------------------------------------------------------------
(* SpecTermination: listings of two pages, under a provider whose listings *)
(* end and under one that puts a next link on every page; the worker keeps *)
(* running what it has started (fairness as in SpecFair).                  *)

\* three campaign level rows of the first account on 2024-01-30
TerminationRows == SubSeq(PagedRows, 1, 3)

TerminationInit ==
    /\ ChunkIdle
    /\ remoteAccounts = <<AccountBrand, AccountClient, AccountAgency>>
    /\ remoteRows = TerminationRows
    /\ endlessPaging \in BOOLEAN
    /\ requests = {}
    /\ EmptyDatabase
    /\ now = 0
    /\ EmptyQueue

SpecTermination ==
    /\ TerminationInit
    /\ [][PagesNext]_vars
    /\ WF_vars(AddJobsStep)
    /\ WF_vars(\E job \in jobs : Running = {} /\ GetJob(job.id))
    /\ WF_vars(\E job \in jobs : BackoffElapsed(job.id))
    /\ WF_vars(\E j \in Running : PassStep(j))
    /\ WF_vars(\E j \in Running : CompleteJob(j))
    /\ WF_vars(\E j \in Running : FailJob(j))

\* the task of job id has run to its end or has thrown
PassEnded(id) ==
    id \notin Running \/ pass[id].pc \in {"done", "rejected"}

\* C26: when every listing has finitely many pages, a pass that has been
\* started ends, in done or in failure.  Nothing else bounds it: under a
\* provider that puts a next link on every page the pass stays in the
\* first listing, every answer is followed by the next request, and it
\* ends only if a call throws.
PassTerminates ==
    /\ \A id \in ChunkJobIds :
          (~endlessPaging /\ id \in Running) ~> PassEnded(id)
    /\ [](endlessPaging =>
             \A j \in Running :
                 /\ pass[j].pc \in {"ensureSelect", "ensureInsert",
                                    "fetchAccounts", "rejected"}
                 /\ pass[j].pc = "rejected" => pass[j].error # "")
    /\ [][\A j \in Running \cap Running' :
             (/\ endlessPaging
              /\ pass[j].pc = "fetchAccounts"
              /\ pass'[j] # pass[j]
              /\ pass'[j].pc # "rejected") =>
                 /\ pass'[j].pc = "fetchAccounts"
                 /\ pass'[j].calls = pass[j].calls + 1]_vars

\* the provider has three accounts on two pages and the pass is asking for
\* a fourth page
PassTerminatesWitness ==
    /\ endlessPaging
    /\ \E j \in Running :
          /\ pass[j].pc = "fetchAccounts"
          /\ pass[j].calls = 3
          /\ Len(pass[j].results) = 3

-----------------------------------------------------------------------------
(* SpecClient: one start-sync request, one worker slot, every awaited call *)
(* failing in each of the ways it can.                                     *)

ClientNext ==
    \/ \E s, e \in SyncDays :
          api.posted = 0 /\ PostSync(ParseDate(s), ParseDate(e))
    \/ AddJobsStep
    \/ \E job \in jobs : Running = {} /\ GetJob(job.id)
    \/ \E job \in jobs : BackoffElapsed(job.id)
    \/ \E j \in Running : PassStep(j)
    \/ \E j \in Running : CompleteJob(j)
    \/ \E j \in Running, error \in FetchErrors \cup {"database error"} :
          TaskThrowsWith(j, error)
    \/ \E j \in Running : FailJob(j)

SpecClient == Init /\ [][ClientNext]_vars

\* the pass of job j is waiting for a page and the step makes it throw
FetchFails(j) ==
    /\ j \in Running \cap Running'
    /\ pass[j].pc \in {"fetchAccounts", "fetchInsights"}
    /\ pass'[j].pc = "rejected"

\* C27 as stated: a page request ends in the parsed data, in a 'Meta API
\* error (status): body' error or in a 'Meta API timeout' error.
FetchOutcomesAsStated ==
    [][\A j \in Running :
          FetchFails(j) =>
              pass'[j].error \in {"Meta API error (500): body",
                                  "Meta API timeout after 30000ms"}]_vars

\* C27, amended: a page request is made once; it ends in the parsed data,
\* in a 'Meta API error (status): body' error, in a 'Meta API timeout'
\* error, or in the error fetch or the parsing of the body raised.  On an
\* error nothing more is asked or written by the pass, and the error text
\* becomes the job's last_error as it is.
ClientNeverRetries ==
    /\ [][\A j \in Running :
             FetchFails(j) =>
                 /\ pass'[j].error \in FetchErrors
                 /\ UNCHANGED <<remoteVars, dbVars, jobs>>]_vars
    /\ [][\A j \in Running \cap Running' :
             (/\ pass[j].pc \in {"fetchAccounts", "fetchInsights"}
              /\ pass'[j] # pass[j]
              /\ pass'[j].pc # "rejected"
              /\ pass'[j].calls # 0) =>
                 pass'[j].calls = pass[j].calls + 1]_vars
    /\ [][\A j \in Running :
             (pass[j].pc = "rejected" /\ pass' # pass) =>
                 /\ j \notin Running'
                 /\ \E job \in jobs' : /\ job.id = j
                                       /\ job.last_error = pass[j].error]_vars

\* a job failed by the abort timer waits for its next attempt
ClientNeverRetriesWitness ==
    \E job \in jobs :
        /\ job.last_error = "Meta API timeout after 30000ms"
        /\ ~job.locked
        /\ job.attempts = 1

-----------------------------------------------------------------------------
(* SpecAttribution: two accounts that use the same external ids; the first *)
(* has a row at each level and a row that names no object.                 *)

AttributionRows ==
    << InsightRow(1, "campaign", 394, 12300, 100, 7),
       [InsightRow(1, "campaign", 394, 500, 5, 1) EXCEPT !.campaign_id = ""],
       InsightRow(1, "adset", 394, 12300, 100, 7),
       InsightRow(1, "ad", 394, 12300, 100, 7),
       InsightRow(2, "campaign", 395, 5000, 40, 2),
       InsightRow(2, "ad", 395, 5000, 40, 2) >>

AttributionInit ==
    /\ ChunkIdle
    /\ remoteAccounts = <<AccountBrand, AccountClient>>
    /\ remoteRows = AttributionRows
    /\ endlessPaging = FALSE
    /\ requests = {}
    /\ EmptyDatabase
    /\ now = 0
    /\ EmptyQueue

AttributionNext ==
    \/ \E s, e \in SyncDays :
          api.posted = 0 /\ PostSync(ParseDate(s), ParseDate(e))
    \/ AddJobsStep
    \/ SerialWorker

SpecAttribution == AttributionInit /\ [][AttributionNext]_vars

\* the level of the lowest object a row names, as an object type
OwnLevel(r) ==
    IF r.ad_id # "" THEN "AD"
    ELSE IF r.adset_id # "" THEN "AD_SET"
    ELSE IF r.campaign_id # "" THEN "CAMPAIGN"
    ELSE ""

\* the external id of that object
OwnId(r) ==
    IF OwnLevel(r) = "AD" THEN r.ad_id
    ELSE IF OwnLevel(r) = "AD_SET" THEN r.adset_id
    ELSE r.campaign_id

\* the positions of the fetched rows that name an object, in order
RECURSIVE NamingRows(_, _)
NamingRows(insights, i) ==
    IF i > Len(insights) THEN <<>>
    ELSE IF OwnLevel(insights[i]) # ""
         THEN <<i>> \o NamingRows(insights, i + 1)
         ELSE NamingRows(insights, i + 1)

\* C28: the facts derived from the fetched rows of an account are one per
\* row that names an object, in the order of the rows; the fact of a row is
\* attached to the object of the row's own level (the ad, else the ad set,
\* else the campaign), which is an object of the account being processed;
\* a row that names no object has no fact.  The facts inserted are those.
FactAttribution ==
    /\ [](\A j \in Running :
             pass[j].pc = "insertSpendings" =>
                 LET ps     == pass[j]
                     naming == NamingRows(ps.insights, 1)
                 IN  /\ Len(ps.toInsert) = Len(naming)
                     /\ \A n \in 1..Len(naming) :
                           \E o \in adObjects :
                               /\ o.id = ps.toInsert[n].adObjectId
                               /\ o.adAccountId = ps.dbAccountId
                               /\ o.externalId = OwnId(ps.insights[naming[n]])
                               /\ o.type = OwnLevel(ps.insights[naming[n]]))
    /\ [][\A j \in Running :
             (pass[j].pc = "insertSpendings" /\ spendings' # spendings) =>
                 /\ Cardinality(spendings' \ spendings) = Len(pass[j].toInsert)
                 /\ \A f \in spendings' \ spendings :
                       \E n \in 1..Len(pass[j].toInsert) :
                           f = [id |-> f.id] @@ pass[j].toInsert[n]]_vars

\* the first account's four rows have given three facts, and the second
\* account has an object with the external id of one of the first's
FactAttributionWitness ==
    \E j \in Running :
        /\ pass[j].pc = "insertSpendings"
        /\ Len(pass[j].insights) = 4
        /\ Len(pass[j].toInsert) = 3
        /\ \E o, q \in adObjects :
              o.externalId = q.externalId /\ o.adAccountId # q.adAccountId

-----------------------------------------------------------------------------
(* Period and currency of the facts (SpecAttribution)                      *)

\* the ad account row an object row belongs to
AccountOfObject(objectId) ==
    CHOOSE acc \in adAccounts :
        \E o \in adObjects : o.id = objectId /\ o.adAccountId = acc.id

\* C29: every fact built by a pass is of one day, the day of its row:
\* periodStart = periodEnd = the row's date_start; and its currency is that
\* of the account being processed.  So is every fact stored.
SingleDayFacts ==
    /\ \A j \in Running :
          pass[j].pc = "insertSpendings" =>
              LET ps     == pass[j]
                  naming == NamingRows(ps.insights, 1)
              IN  \A n \in 1..Len(ps.toInsert) :
                      /\ ps.toInsert[n].periodStart =
                            ParseDate(ps.insights[naming[n]].date_start)
                      /\ ps.toInsert[n].periodEnd = ps.toInsert[n].periodStart
                      /\ ps.toInsert[n].currency = ps.metaAccounts[ps.k].currency
    /\ \A f \in spendings :
          /\ f.periodStart = f.periodEnd
          /\ f.periodStart = ParseDate(ISODate(f.periodStart))
          /\ f.currency = AccountOfObject(f.adObjectId).currency

\* facts of both accounts are stored, in their two currencies
SingleDayFactsWitness ==
    /\ \E f, g \in spendings : f.currency = "ARS" /\ g.currency = "AUD"
    /\ \E j \in Running : pass[j].pc = "done"

-----------------------------------------------------------------------------
(* SpecBatches: one account whose campaign has so many rows on one day     *)
(* that the facts of a pass need up to three inserts.                      *)

\* the most rows the account lists
MaxFacts == 201

\* row x of the campaign; the rows differ in their spend
BatchRows == [x \in 1..MaxFacts |-> InsightRow(1, "campaign", 394, 10 * x, 10, 1)]

\* how many of the rows the account has
BatchCounts == {1, CHUNK_SIZE, CHUNK_SIZE + 1, MaxFacts}

BatchesInit ==
    /\ ChunkIdle
    /\ remoteAccounts = <<AccountBrand>>
    /\ \E n \in BatchCounts : remoteRows = SubSeq(BatchRows, 1, n)
    /\ endlessPaging = FALSE
    /\ requests = {}
    /\ EmptyDatabase
    /\ now = 0
    /\ EmptyQueue

BatchesNext ==
    \/ api.posted = 0 /\ PostSync(ParseDate(395), ParseDate(395))
    \/ AddJobsStep
    \/ SerialWorker

SpecBatches == BatchesInit /\ [][BatchesNext]_vars

\* ceil(n / d)
CeilDiv(n, d) == (n + d - 1) \div d

\* the rows an insert statement issued at offset i of `facts` carries
BatchAt(facts, i) ==
    SubSeq(facts, i + 1, IF i + CHUNK_SIZE < Len(facts) THEN i + CHUNK_SIZE
                         ELSE Len(facts))

\* C30: the facts of an account are inserted in batches of at most 100 rows:
\* a pass that has issued m inserts has stored exactly the first 100 * m of
\* its n facts, once each and in derivation order; every insert adds the
\* next min(100, rest) facts and nothing else; the account is left after
\* insert ceil(n / 100); and an insert that fails leaves the facts of the
\* inserts before it stored as they are.
BatchedInserts ==
    /\ [](\A j \in Running :
             pass[j].pc = "insertSpendings" =>
                 LET ps == pass[j]
                     n  == Len(ps.toInsert)
                 IN  /\ ps.i % CHUNK_SIZE = 0
                     /\ ps.i < n
                     /\ ps.i \div CHUNK_SIZE < CeilDiv(n, CHUNK_SIZE)
                     /\ \A x \in 1..ps.i :
                           \E f \in spendings :
                               f = [id |-> nextId - ps.i + x - 1] @@ ps.toInsert[x]
                     /\ Cardinality({f \in spendings : f.id >= nextId - ps.i}) = ps.i)
    /\ [][\A j \in Running :
             (pass[j].pc = "insertSpendings" /\ pass' # pass) =>
                 LET ps    == pass[j]
                     n     == Len(ps.toInsert)
                     batch == BatchAt(ps.toInsert, ps.i)
                 IN  IF pass'[j].pc = "rejected"
                     THEN spendings' = spendings
                     ELSE /\ spendings \subseteq spendings'
                          /\ Len(batch) <= CHUNK_SIZE
                          /\ Cardinality(spendings' \ spendings) = Len(batch)
                          /\ \A x \in 1..Len(batch) :
                                \E f \in spendings' \ spendings :
                                    f = [id |-> nextId + x - 1] @@ batch[x]
                          /\ IF pass'[j].pc = "insertSpendings"
                             THEN /\ pass'[j].i = ps.i + CHUNK_SIZE
                                  /\ pass'[j].toInsert = ps.toInsert
                             ELSE (ps.i \div CHUNK_SIZE) + 1 = CeilDiv(n, CHUNK_SIZE)]_vars

\* the third insert of a first attempt failed: the two hundred facts of the
\* first two inserts are stored
BatchedInsertsWitness ==
    \E j \in Running :
        /\ pass[j].pc = "rejected"
        /\ pass[j].error = "database error"
        /\ JobById(j).attempts = 1
        /\ Len(remoteRows) > 2 * CHUNK_SIZE
        /\ Cardinality(spendings) = 2 * CHUNK_SIZE

-----------------------------------------------------------------------------
(* SpecCents: one account with one campaign row whose spend is any of the  *)
(* strings below; two start-sync requests, one after the other, store the  *)
(* row's fact twice.                                                       *)

\* the largest spend of the range, in thousandths
MaxSpend == 300

\* the spend strings: none, '0.000' .. '0.300' and '12.30'
SpendStrings == {Absent} \cup 0..MaxSpend \cup {12300}

CentsInit ==
    /\ ChunkIdle
    /\ remoteAccounts = <<AccountBrand>>
    /\ \E spend \in SpendStrings :
          remoteRows = <<InsightRow(1, "campaign", 394, spend, 10, 1)>>
    /\ endlessPaging = FALSE
    /\ requests = {}
    /\ EmptyDatabase
    /\ now = 0
    /\ EmptyQueue

CentsNext ==
    \/ /\ api.posted < MaxRequests
       /\ jobs = {}
       /\ PostSync(ParseDate(395), ParseDate(395))
    \/ AddJobsStep
    \/ SerialWorker

SpecCents == CentsInit /\ [][CentsNext]_vars

\* C31: a spend string with at most two fractional digits is stored as its
\* value times 100, exactly; a missing or empty spend is stored as 0; and
\* the facts of the same string carry the same amountCents.
CentsExact ==
    LET spend == remoteRows[1].spend
    IN  \A f \in spendings :
            /\ spend = Absent => f.amountCents = 0
            /\ (spend # Absent /\ spend % 10 = 0) => 10 * f.amountCents = spend
            /\ \A g \in spendings : g.amountCents = f.amountCents

\* '0.29' has been stored twice, as 29 cents
CentsExactWitness ==
    /\ remoteRows[1].spend = 290
    /\ Cardinality(spendings) = 2
    /\ \A f \in spendings : f.amountCents = 29

-----------------------------------------------------------------------------
(* SpecDispatch: one submission of up to three chunks, by POST /api/sync   *)
(* or by the trigger-sync script, and the worker with one slot, its jobs   *)
(* failing at any await and retried.                                       *)

\* 2024-01-31, 2024-02-01 and 2024-03-01
DispatchDays == {395, 396, 425}

DispatchNext ==
    \/ \E s, e \in DispatchDays :
          /\ api.posted = 0
          /\ cli.pc = "idle"
          /\ PostSync(ParseDate(s), ParseDate(e))
    \/ AddJobsStep
    \/ \E s, e \in DispatchDays :
          /\ api.posted = 0
          /\ cli.pc = "idle"
          /\ TriggerSync(s, e)
    \/ TriggerSyncAddJob
    \/ SerialWorker

SpecDispatch == Init /\ [][DispatchNext]_vars

\* the chunks of the submission, in chunk order
Submission == IF cli.pc # "idle" THEN cli.dateRanges ELSE api.dateRanges

\* no job of the queue has failed
NoRetries == \A job \in jobs : job.last_error = "" /\ job.attempts <= 1

\* the step dispatches job (its first attempt)
Dispatched(job) ==
    /\ job.attempts = 0
    /\ \E k \in jobs' : k.id = job.id /\ k.locked

\* C32: the i-th job of a submission (from 0, in chunk order) has priority
\* i, so an earlier chunk has a strictly smaller priority number; and while
\* no job has failed, the worker with one slot dispatches the chunks in
\* chronological order: when a chunk is dispatched every earlier chunk has
\* completed and no later chunk has been dispatched.
ChunksDispatchedInOrder ==
    /\ [](\A job \in jobs :
             /\ job.priority \in 0..(Len(Submission) - 1)
             /\ Submission[job.priority + 1] = job.payload
             /\ \A other \in jobs :
                   job.payload.startDate < other.payload.startDate
                       => job.priority < other.priority)
    /\ [][\A job \in jobs :
             (NoRetries /\ Dispatched(job)) =>
                 /\ \A other \in jobs \ {job} :
                       /\ other.attempts = 0
                       /\ other.payload.startDate > job.payload.startDate
                 /\ \A done \in completed :
                       done.startDate < job.payload.startDate]_vars

\* the third chunk of a three-chunk submission is running after the first
\* two completed, no job having failed
ChunksDispatchedInOrderWitness ==
    /\ Len(Submission) = 3
    /\ Cardinality(completed) = 2
    /\ \E job \in jobs : job.locked /\ job.priority = 2 /\ job.attempts = 1
    /\ NoRetries

-----------------------------------------------------------------------------
(* SpecListing: two accounts; the first has three campaigns, one of them   *)
(* reported on 2024-01-31 only, and two ad sets under its first campaign;  *)
(* the second has a campaign with the external id of one of the first's.   *)
(* Start-sync requests one after the other, their jobs run one at a time,  *)
(* and the dashboard lists objects when the queue is empty.                *)

\* a campaign-level row of account a
CampaignRow(a, day, campaign_id, spend, impressions, clicks) ==
    [InsightRow(a, "campaign", day, spend, impressions, clicks)
        EXCEPT !.campaign_id = campaign_id, !.campaign_name = campaign_id]

\* an ad-set-level row of account a
AdSetRow(a, day, campaign_id, adset_id, spend, impressions, clicks) ==
    [InsightRow(a, "adset", day, spend, impressions, clicks)
        EXCEPT !.campaign_id = campaign_id, !.adset_id = adset_id,
               !.adset_name = adset_id]

ListingRows ==
    << CampaignRow(1, 394, "c1", 5000, 50, 5),
       CampaignRow(1, 395, "c1", 1000, 10, 1),
       CampaignRow(1, 394, "c2", 20000, 200, 20),
       CampaignRow(1, 395, "c3", 3000, 30, 3),
       AdSetRow(1, 394, "c1", "s1", 2000, 20, 2),
       AdSetRow(1, 394, "c1", "s2", 3000, 30, 3),
       AdSetRow(1, 395, "c1", "s1", 1000, 10, 1),
       CampaignRow(2, 395, "c1", 7000, 70, 7) >>

ListingInit ==
    /\ ChunkIdle
    /\ remoteAccounts = <<AccountBrand, AccountClient>>
    /\ remoteRows = ListingRows
    /\ endlessPaging = FALSE
    /\ requests = {}
    /\ EmptyDatabase
    /\ now = 0
    /\ EmptyQueue

\* limit / offset pairs of the listing requests; a limit above MAX_LIMIT is
\* one a caller of the function can pass
ListingPaginations ==
    ({NULL, 1, 2, 150} \X {NULL}) \cup ({1, 2} \X {0, 1, 2, 3, 4})

ListingNext ==
    \/ /\ readResult = NoRead
       /\ \/ \E s, e \in SyncDays :
                /\ api.posted < MaxRequests
                /\ jobs = {}
                /\ PostSync(ParseDate(s), ParseDate(e))
          \/ AddJobsStep
          \/ \E job \in jobs : Running = {} /\ GetJob(job.id)
          \/ \E j \in Running : PassStep(j)
          \/ \E j \in Running : CompleteJob(j)
          \/ \E a \in adAccounts,
                parentId \in {NULL} \cup {o.id : o \in adObjects},
                s, e \in ReadDays, pg \in ListingPaginations :
                /\ jobs = {}
                /\ s <= e
                /\ GetObjectsWithSpending(a.id, parentId, ParseDate(s),
                                          ParseDate(e), pg[1], pg[2])
    \/ ReadReturns

SpecListing == ListingInit /\ [][ListingNext]_vars

\* C33: in every page of an object listing the rows' spendCents are
\* non-increasing; an object without a fact in the window reports 0 and
\* does not precede an object with a positive spend.
ListingSortedBySpend ==
    readResult.op = "getObjectsWithSpending" =>
        \A i, j \in 1..Len(readResult.page.data) :
            i < j => readResult.page.data[i].spendCents
                        >= readResult.page.data[j].spendCents

\* the newest facts of object id for day d
NewestFacts(id, d) ==
    LET F == {f \in spendings : f.adObjectId = id /\ ISODate(f.periodStart) = d}
    IN  {f \in F : \A g \in F : g.collectedAt <= f.collectedAt}

\* the days of the read's window on which object id has a fact
DaysWithFact(id) ==
    {d \in ISODate(readResult.startDate)..ISODate(readResult.endDate) :
        NewestFacts(id, d) # {}}

\* the current fact of object id for day d
CurrentFact(id, d) == CHOOSE f \in NewestFacts(id, d) : TRUE

\* C34: an object listing for (account, parent) returns only objects of that
\* account whose parentId is the given parent (null for the root scope),
\* each once whatever the number of its facts; a first page that takes the
\* whole scope lists every object of it; a row's spend, impressions and
\* clicks are the sums of the object's current facts over the days of the
\* window, and its parentName and parentType are those of its parent
\* object (null at the root).
ListingScope ==
    readResult.op = "getObjectsWithSpending" =>
        LET data == readResult.page.data
        IN  /\ \A i \in 1..Len(data) :
                  /\ \E o \in adObjects :
                        /\ o.id = data[i].id
                        /\ o.adAccountId = readResult.accountId
                        /\ o.parentId = readResult.parentId
                        /\ data[i].externalId = o.externalId
                        /\ data[i].type = o.type
                        /\ data[i].name = o.name
                  /\ data[i].parentId = readResult.parentId
                  /\ \A j \in 1..Len(data) : i # j => data[i].id # data[j].id
                  /\ data[i].spendCents =
                        SumValues({<<d, CurrentFact(data[i].id, d).amountCents>> :
                                      d \in DaysWithFact(data[i].id)})
                  /\ data[i].impressions =
                        SumValues({<<d, Coalesce0(CurrentFact(data[i].id, d).impressions)>> :
                                      d \in DaysWithFact(data[i].id)})
                  /\ data[i].clicks =
                        SumValues({<<d, Coalesce0(CurrentFact(data[i].id, d).clicks)>> :
                                      d \in DaysWithFact(data[i].id)})
                  /\ IF readResult.parentId = NULL
                     THEN data[i].parentName = "" /\ data[i].parentType = ""
                     ELSE \E q \in adObjects :
                             /\ q.id = readResult.parentId
                             /\ data[i].parentName = q.name
                             /\ data[i].parentType = q.type
            /\ (readResult.page.offset = 0
                  /\ readResult.page.limit >= readResult.page.total) =>
                  {data[i].id : i \in 1..Len(data)} =
                      {o.id : o \in {q \in adObjects :
                                         /\ q.adAccountId = readResult.accountId
                                         /\ q.parentId = readResult.parentId}}

\* the two ad sets under the first campaign of the first account are listed
\* for both days; one of them has facts on both days, written by two passes
\* each, and the other account has a campaign of its own
ListingScopeWitness ==
    /\ readResult.op = "getObjectsWithSpending"
    /\ readResult.parentId # NULL
    /\ ISODate(readResult.startDate) = 394
    /\ ISODate(readResult.endDate) = 395
    /\ Len(readResult.page.data) = 2
    /\ \E i \in 1..2 :
          /\ readResult.page.data[i].spendCents = 300
          /\ readResult.page.data[i].parentType = "CAMPAIGN"
          /\ Cardinality({f \in spendings :
                 f.adObjectId = readResult.page.data[i].id}) = 4
    /\ \E o \in adObjects : o.adAccountId # readResult.accountId

\* the number of objects of the scope a listing was asked for
ScopeSize ==
    Cardinality({o \in adObjects : /\ o.adAccountId = readResult.accountId
                                   /\ o.parentId = readResult.parentId})

\* min(a, b)
Min(a, b) == IF a < b THEN a ELSE b

\* C35: the effective limit of an object listing is min(requested limit or
\* 50, 100) and the page has at most that many rows; total is the number of
\* objects of the scope; hasMore is true exactly when offset + returned rows
\* < total.  A page with hasMore is full, and a page without it that starts
\* inside the scope ends at its last row: the pages at offsets 0, limit,
\* 2 * limit, ... up to the first one without hasMore hold total rows.
ListingPagination ==
    readResult.op = "getObjectsWithSpending" =>
        LET page == readResult.page
        IN  /\ page.limit =
                  Min(IF readResult.limit = NULL THEN 50 ELSE readResult.limit, 100)
            /\ page.offset = (IF readResult.offset = NULL THEN 0 ELSE readResult.offset)
            /\ Len(page.data) <= page.limit
            /\ page.total = ScopeSize
            /\ page.hasMore <=> (page.offset + Len(page.data) < page.total)
            /\ page.hasMore => Len(page.data) = page.limit
            /\ (~page.hasMore /\ page.offset <= page.total) =>
                  page.offset + Len(page.data) = page.total

\* the second page of a scope of three objects, asked with limit 2 and
\* offset 2: one row, nothing more
ListingPaginationWitness ==
    /\ readResult.op = "getObjectsWithSpending"
    /\ readResult.page.limit = 2
    /\ readResult.page.offset = 2
    /\ readResult.page.total = 3
    /\ Len(readResult.page.data) = 1
    /\ ~readResult.page.hasMore

-----------------------------------------------------------------------------
(* The window of the aggregation reads (SpecRetry)                         *)

\* the days of the window of the last read
WindowOfRead == ISODate(readResult.startDate)..ISODate(readResult.endDate)

-----------------------------------------------------------------------------
(* SpecInstants: one start-sync request whose startDate and endDate are    *)
(* instants of 2024-01-31 or 2024-02-01, at midnight or at noon UTC, as    *)
(* z.coerce.date() accepts them; its jobs run one at a time.               *)

\* hours of the day of the instants
HoursOfDay == {0, 12}

Instants == {ParseDate(d) + h : d \in SyncDays, h \in HoursOfDay}

InstantsNext ==
    \/ \E startDate, endDate \in Instants :
          api.posted = 0 /\ PostSync(startDate, endDate)
    \/ AddJobsStep
    \/ SerialWorker

SpecInstants == Init /\ [][InstantsNext]_vars

\* the days of a chunk
DaysOfChunk(chunk) == chunk.startDate..chunk.endDate

\* C37: the chunks of every accepted start-sync request, its dates being
\* any two instants with endDate >= startDate, have startDate <= endDate and
\* cover the calendar days from the UTC day of startDate to the UTC day of
\* endDate, each day once.
ChunksOfInstantsCoverDays ==
    api.pc \in {"adding", "accepted"} =>
        /\ \A i \in 1..Len(api.dateRanges) :
              api.dateRanges[i].startDate <= api.dateRanges[i].endDate
        /\ UNION {DaysOfChunk(api.dateRanges[i]) : i \in 1..Len(api.dateRanges)}
              = ISODate(api.startDate)..ISODate(api.endDate)
        /\ \A i, j \in 1..Len(api.dateRanges) :
              i # j => DaysOfChunk(api.dateRanges[i])
                          \cap DaysOfChunk(api.dateRanges[j]) = {}

-----------------------------------------------------------------------------
(* SpecFresh: one account; two start-sync requests for 2024-01-31, their   *)
(* jobs run by the worker's concurrent slots while the clock moves and the *)
(* provider restates the spend of 2024-01-30.                              *)

FreshNext ==
    \/ /\ api.posted < MaxRequests
       /\ PostSync(ParseDate(395), ParseDate(395))
    \/ AddJobsStep
    \/ \E job \in jobs : GetJob(job.id)
    \/ \E j \in Running : PassStep(j)
    \/ \E j \in Running : CompleteJob(j)
    \/ Tick
    \/ RestateRemote

SpecFresh == Init /\ [][FreshNext]_vars

\* f was built from a row fetched before the restatement, g from the same
\* row fetched after it
FetchedBefore(f, g) ==
    /\ f.adObjectId = g.adObjectId
    /\ f.periodStart = g.periodStart
    /\ \E i \in 1..Len(BrandRows) :
          /\ Restated(BrandRows[i]) # BrandRows[i]
          /\ ParseDate(BrandRows[i].date_start) = f.periodStart
          /\ f.amountCents = AmountCents(BrandRows[i].spend)
          /\ g.amountCents = AmountCents(Restated(BrandRows[i]).spend)

\* C38: when two passes wrote a fact of the same object and day, and the
\* first fetched the row before the second did, then once both have
\* finished the fact of the first is not the later collected one: the
\* current fact is that of the second.
FreshestFetchIsCurrent ==
    (Running = {} /\ jobs = {}) =>
        \A f, g \in spendings :
            FetchedBefore(f, g) => f.collectedAt <= g.collectedAt

-----------------------------------------------------------------------------
(* SpecReupsert: an ad-set row of 2024-01-30 and one of 2024-01-31.  The    *)
(* chunk of January reads the first and the chunk of February the second,  *)
(* so an object of both rows is upserted by two passes.                    *)

\* external ids an object of the two rows may have
ReupsertIds == {"x", "y", "z"}

ReupsertInit ==
    /\ ChunkIdle
    /\ remoteAccounts = <<AccountBrand>>
    /\ \E c1, s1, c2, s2 \in ReupsertIds :
          remoteRows = << HierarchyRow("adset", 394, c1, s1, ""),
                          HierarchyRow("adset", 395, c2, s2, "") >>
    /\ endlessPaging = FALSE
    /\ requests = {}
    /\ EmptyDatabase
    /\ now = 0
    /\ EmptyQueue

SpecReupsert == ReupsertInit /\ [][HierarchyNext]_vars

\* the row the step leaves for the object of row o
SameObject(o, q) ==
    /\ q.adAccountId = o.adAccountId
    /\ q.externalId = o.externalId

\* C39: no step of a sync pass changes the internal id or the type of a
\* stored hierarchy object, none resets a non-null parentId to null (the
\* parent may be replaced by another object), and every stored fact stays
\* as it is, attached to the same object.
ReupsertKeepsIdentity ==
    [][ /\ \A o \in adObjects :
              \E q \in adObjects' :
                  /\ SameObject(o, q)
                  /\ q.id = o.id
                  /\ q.type = o.type
                  /\ o.parentId # NULL => q.parentId # NULL
        /\ \A o, q \in adObjects' : SameObject(o, q) => o = q
        /\ spendings \subseteq spendings' ]_vars

\* a later pass has upserted again an ad set that an earlier pass linked to
\* a campaign, and is about to replace that parent by another campaign
ReupsertKeepsIdentityWitness ==
    /\ completed # {}
    /\ spendings # {}
    /\ \E j \in Running :
          /\ pass[j].pc = "updateParent"
          /\ LET obj == pass[j].toUpsert[pass[j].p]
             IN  \E o \in adObjects :
                    /\ o.id = pass[j].map[obj.externalId]
                    /\ o.parentId # NULL
                    /\ o.parentId # pass[j].map[obj.parentExternalId]
                    /\ \E f \in spendings : f.adObjectId = o.id

=============================================================================
